---- MODULE Spec2Model ----
(***************************************************************************)
(* A model of the Legal_ChatBot backend: the per-document FAISS index      *)
(* (build, load, search, filtered search), the MongoDB embedding ingestion,*)
(* the query router and the legal-document chunker.                        *)
(*                                                                         *)
(* Python lists are modelled as TLA+ sequences.  Python positions are      *)
(* 0-based and are kept 0-based wherever the code stores them              *)
(* (section_index, FAISS labels); the element with Python position i is    *)
(* element i + 1 of the sequence.                                          *)
(***************************************************************************)
EXTENDS Integers, Sequences, FiniteSets, TLC

(***************************************************************************)
(* Bounds of the model.                                                    *)
(***************************************************************************)
\* longest chunk list handed to one index build
MaxSections == 3
\* chunks per embedding batch.  The code batches by 10
\* (faiss_integration.py:67, create_vectorStore.py:124); the model batches
\* by BatchSize so that several batches arise within MaxSections.
BatchSize == 2
\* largest `limit` a caller passes to search_similar_sections
MaxLimit == 5
\* largest page number a query names ("page N")
MaxPage == 4
\* uploads through create_embeddings_batch in one run
MaxUploads == 2
\* file records upload_file stores in one run
MaxFiles == 2
\* lines of a text given to the chunker
MaxLines == 4
\* max_tokens of the chunker; the code builds it with 512, scaled down so
\* that a few lines make a section that has to be split
MaxTokens == 57

(***************************************************************************)
(* Program constants.                                                      *)
(***************************************************************************)
\* ThreadPoolExecutor(max_workers=4)
MaxWorkers == 4
\* search_similar_sections(query, file_id, limit=3) of the fallback
FallbackLimit == 3
\* `i < 3` in filtered_vector_search
FilterCap == 3
\* manage_chunking.py:124, chunk_size = max_tokens - 50
Reserve == 50
\* manage_chunking.py:15, overlap_percentage = 0.15, in hundredths
OverlapPct == 15

(***************************************************************************)
(* Generic helpers.                                                        *)
(***************************************************************************)
Min(a, b) == IF a <= b THEN a ELSE b

Max(a, b) == IF a >= b THEN a ELSE b


RECURSIVE SumOver(_, _)
\* sum(f(x) for x in s), f given as the sequence of the summands
SumOver(s, i) == IF i > Len(s) THEN 0 ELSE s[i] + SumOver(s, i + 1)

Sum(s) == SumOver(s, 1)

RECURSIVE Flatten(_)
\* the concatenation of a sequence of sequences
Flatten(ss) == IF ss = <<>> THEN <<>> ELSE Head(ss) \o Flatten(Tail(ss))

(***************************************************************************)
(* The embedding collaborator and the similarity of two vectors.           *)
(* A vector is a direction (in eighths of a turn) and a norm; the inner    *)
(* product of two vectors is norm * norm * cos(angle between them), kept   *)
(* in thousandths.                                                         *)
(***************************************************************************)
Cos(d) ==
    CASE d % 8 = 0 -> 1000
      [] d % 8 = 1 -> 707
      [] d % 8 = 2 -> 0
      [] d % 8 = 3 -> -707
      [] d % 8 = 4 -> -1000
      [] d % 8 = 5 -> -707
      [] d % 8 = 6 -> 0
      [] d % 8 = 7 -> 707

\* embeddings_model.embed_query(text) / embed_documents([text]): the raw
\* (not yet normalized) vector the service returns for a text
Embed(text) ==
    CASE text = "A"  -> [dir |-> 0, norm |-> 2]
      [] text = "B"  -> [dir |-> 1, norm |-> 1]
      [] text = "qa" -> [dir |-> 0, norm |-> 3]
      [] text = "qb" -> [dir |-> 1, norm |-> 1]
      [] text = "qc" -> [dir |-> 2, norm |-> 2]

\* faiss.normalize_L2: the same direction at unit length
NormalizeL2(v) == [dir |-> v.dir, norm |-> 1]

\* the inner product IndexFlatIP ranks by
InnerProduct(u, v) == u.norm * v.norm * Cos(u.dir - v.dir + 8)

\* count_tokens(text) of a chunk content
CountTokens(text) ==
    CASE text = "A" -> 3
      [] text = "B" -> 6

(***************************************************************************)
(* Inputs: chunk lists, queries, file ids.                                 *)
(***************************************************************************)
\* the chunks a document may consist of.  "B" is a chunk that carries an
\* overlap prefix: its token_count field is that of its section alone.
SectionKinds ==
    { [content |-> "A", page_start |-> 1, page_end |-> 1, token_count |-> 3],
      [content |-> "B", page_start |-> 2, page_end |-> 6, token_count |-> 5] }

Docs == UNION {[1..n -> SectionKinds] : n \in 0..MaxSections}

\* the two chunks create_overlapping_chunks makes of one section above
\* max_tokens (manage_chunking.py lines 137-146), with the page span
\* create_vectorStore.py lines 104-105 give every chunk of a document
SplitPart(k, content, token_count) ==
    [section_title |-> <<"Scope", IF k = 1 THEN "(Part 1)" ELSE "(Part 2)">>,
     content |-> content,
     page_start |-> 1,
     page_end |-> 1,
     token_count |-> token_count,
     is_split |-> TRUE,
     part_number |-> k,
     total_parts |-> 2]

SplitDocs == {<<SplitPart(1, "A", 3), SplitPart(2, "B", 5)>>}

Queries == {"qa", "qb", "qc"}

\* the document whose index is built, and one that is never ingested
FileIds == {"f1", "f2"}

BuildIds == {"f1"}

\* file_id = None
NoFileId == ""

AbsentFile == [exists |-> FALSE, data |-> <<>>]

StoredFile(d) == [exists |-> TRUE, data |-> d]

(***************************************************************************)
(* State.                                                                  *)
(***************************************************************************)
VARIABLES
    backend,          \* which ingestion path this deployment drives
    idxFile,          \* Faiss_index/{file_id}.index, per file id
    metaFile,         \* Faiss_index/{file_id}_metadata.pkl, per file id
    fpc,              \* position of create_faiss_embeddings
    fargs,            \* its arguments: sections, file_id
    fok,              \* positions (0-based) whose embed_query call succeeded
    fresults,         \* per batch: the worker's result, or pending
    farrival,         \* batch numbers in the order the workers finished
    fstage,           \* all_embeddings and metadata built at lines 78-99
    fret,             \* outcome of the last finished build
    scall,            \* the last search call
    sres,             \* what it returned
    sinfo,            \* what get_document_info returned
    embeddings_collection,  \* db["embeddings"], in insertion order
    muploads,         \* uploads started so far (each draws a fresh file id)
    mpc,              \* position of create_embeddings_batch
    margs,            \* its arguments: sections, file_id
    mok,              \* batch_index of the batches whose embed_documents call succeeded
    mresults,         \* per batch: the worker's result, or pending
    marrival,         \* batch_index values in the order the workers finished
    mret,             \* outcome of the last finished call
    files_collection, \* db["files"], in insertion order
    rstate,           \* the GraphState route_query returned
    rcall,            \* the last route_query call: session, behaviour of its collaborators
    doc_text,         \* the text given to the chunker, as its lines
    cpc,              \* position of extract_pdf_sections
    doc_sections,     \* result of extract_hierarchical_sections
    doc_chunks,       \* result of create_overlapping_chunks
    collection,       \* doc_chat.py: the chunk documents of the vector store
    document_summaries, \* doc_chat.py: db.document_summaries
    dret,             \* what the last doc_chat.py call returned
    upc,              \* upload_file: where the request stands
    uargs,            \* upload_file: its locals
    uret              \* upload_file: what the request ended with

faissVars == <<idxFile, metaFile, fpc, fargs, fok, fresults, farrival, fstage, fret>>

searchVars == <<scall, sres, sinfo>>

mongoVars == <<embeddings_collection, muploads, mpc, margs, mok, mresults, marrival, mret>>

routeVars == <<files_collection, rstate, rcall>>

chunkVars == <<doc_text, cpc, doc_sections, doc_chunks>>

docVars == <<collection, document_summaries, dret>>

uploadVars == <<upc, uargs, uret>>

vars == <<backend, faissVars, searchVars, mongoVars, routeVars, chunkVars, docVars, uploadVars>>

(***************************************************************************)
(* create_faiss_embeddings.                                                *)
(***************************************************************************)
Pending == [done |-> FALSE, raised |-> FALSE, items |-> <<>>]

\* lines 66-69: the number of batches of a chunk list
NumBatches(sections) == (Len(sections) + BatchSize - 1) \div BatchSize

\* start_idx of batch b (b = 1, 2, ...)
BatchStart(b) == (b - 1) * BatchSize

\* sections[i : i + 10]
BatchSections(sections, b) ==
    SubSeq(sections, BatchStart(b) + 1, Min(BatchStart(b) + BatchSize, Len(sections)))

RECURSIVE EmbedEach(_, _, _, _)
\* the loop of create_embedding_batch from local position i (0-based) on;
\* ok holds the document positions (0-based) whose embed_query call succeeds
EmbedEach(batch_sections, start_idx, ok, i) ==
    IF i >= Len(batch_sections) THEN <<>>
    ELSE (IF start_idx + i \in ok
          THEN <<[embedding |-> Embed(batch_sections[i + 1].content),
                  index |-> start_idx + i]>>
          ELSE <<>>)
         \o EmbedEach(batch_sections, start_idx, ok, i + 1)

create_embedding_batch(batch_sections, start_idx, ok) ==
    [done |-> TRUE, raised |-> FALSE,
     items |-> EmbedEach(batch_sections, start_idx, ok, 0)]

\* the filename argument the caller passes with a file id
FilenameOf(file_id) == IF file_id = "f1" THEN "lease.pdf" ELSE "other.pdf"

\* Python's None
None == "None"

\* the empty section title: titles are word sequences
NoTitle == <<>>

\* dict.get(key, default)
Get(dict, key, default) == IF key \in DOMAIN dict THEN dict[key] ELSE default

\* the metadata record of lines 84-98
MetadataRecord(sections, item, file_id) ==
    LET section_data == sections[item.index + 1]
    IN  [section_index |-> item.index,
         section_title |-> Get(section_data, "section_title", NoTitle),
         content |-> section_data.content,
         page_start |-> section_data.page_start,
         page_end |-> section_data.page_end,
         token_count |-> section_data.token_count,
         hierarchy_level |-> Get(section_data, "hierarchy_level", 0),
         contains_definitions |-> None,
         contains_obligations |-> None,
         contains_dates |-> None,
         file_id |-> file_id,
         filename |-> FilenameOf(file_id)]

\* list(executor.map(...)): the results in the order of the batches
ResultOrder(results, arrival) == [b \in 1..Len(results) |-> b]

\* lines 78-99: all_embeddings and metadata, item by item
CollectEmbeddings(sections, file_id, results, arrival) ==
    LET order == ResultOrder(results, arrival)
        items == Flatten([k \in 1..Len(order) |-> results[order[k]].items])
    IN  [all_embeddings |-> [k \in 1..Len(items) |-> items[k].embedding],
         metadata |-> [k \in 1..Len(items) |-> MetadataRecord(sections, items[k], file_id)]]

EmptyStage == [all_embeddings |-> <<>>, metadata |-> <<>>]

NoBuild == [sections |-> <<>>, file_id |-> NoFileId]

NoReturn == [status |-> "none", tokens |-> 0]

NoCall == [op |-> "none"]

\* get_document_info was not called
NoInfo == [raised |-> FALSE, total_pages |-> -1, total_sections |-> -1, filename |-> ""]

\* the deployment uses the FAISS files, no call is running and no returned
\* value is held by a caller
Quiescent ==
    /\ backend = "faiss"
    /\ fpc = "idle"
    /\ fret = NoReturn
    /\ scall = NoCall

\* the caller is done with the value a call returned: the frame of the call
\* is gone, the persisted files stay
Return ==
    /\ fpc = "idle"
    /\ fret # NoReturn \/ scall # NoCall
    /\ fargs' = NoBuild
    /\ fok' = {}
    /\ fret' = NoReturn
    /\ scall' = NoCall
    /\ sres' = <<>>
    /\ sinfo' = NoInfo
    /\ UNCHANGED <<docVars, uploadVars, routeVars, chunkVars, mongoVars, backend, idxFile, metaFile, fpc, fresults, farrival, fstage>>

\* line 59: the call; lines 66-69 prepare the batches
FaissBegin(sections, file_id) ==
    /\ backend = "faiss"
    /\ Quiescent
    /\ fpc' = "embedding"
    /\ fargs' = [sections |-> sections, file_id |-> file_id]
    /\ fok' = {}
    /\ fresults' = [b \in 1..NumBatches(sections) |-> Pending]
    /\ farrival' = <<>>
    /\ fstage' = EmptyStage
    /\ fret' = NoReturn
    /\ UNCHANGED <<docVars, uploadVars, routeVars, chunkVars, mongoVars, backend, idxFile, metaFile, searchVars>>

\* lines 75-76: one worker runs create_embedding_batch on batch b; a batch
\* runs only when fewer than max_workers batches before it are unfinished
FaissEmbedBatch(b, ok) ==
    /\ fpc = "embedding"
    /\ b \in DOMAIN fresults
    /\ ~fresults[b].done
    /\ Cardinality({c \in 1..(b - 1) : ~fresults[c].done}) < MaxWorkers
    /\ ok \subseteq BatchStart(b)..(BatchStart(b) + Len(BatchSections(fargs.sections, b)) - 1)
    /\ fresults' = [fresults EXCEPT ![b] =
          create_embedding_batch(BatchSections(fargs.sections, b), BatchStart(b), ok)]
    /\ fok' = fok \cup ok
    /\ farrival' = Append(farrival, b)
    /\ UNCHANGED <<docVars, uploadVars, routeVars, chunkVars, mongoVars, backend, idxFile, metaFile, fpc, fargs, fstage, fret, searchVars>>

\* lines 76-103: the results are gathered; a worker's exception is re-raised
\* by executor.map, an empty all_embeddings returns 0
FaissCollect ==
    /\ fpc = "embedding"
    /\ \A b \in DOMAIN fresults : fresults[b].done
    /\ LET stage == CollectEmbeddings(fargs.sections, fargs.file_id, fresults, farrival)
       IN  IF \E b \in DOMAIN fresults : fresults[b].raised
           THEN /\ fpc' = "idle"
                /\ fret' = [status |-> "raised", tokens |-> 0]
                /\ fstage' = EmptyStage
           ELSE IF stage.all_embeddings = <<>>
           THEN /\ fpc' = "idle"
                /\ fret' = [status |-> "returned", tokens |-> 0]
                /\ fstage' = EmptyStage
           ELSE /\ fpc' = "write_index"
                /\ fret' = fret
                /\ fstage' = stage
    /\ fresults' = <<>>
    /\ farrival' = <<>>
    /\ UNCHANGED <<docVars, uploadVars, routeVars, chunkVars, mongoVars, backend, idxFile, metaFile, fargs, fok, searchVars>>

\* lines 105-114: the vectors are normalized, added and written
FaissWriteIndex ==
    /\ fpc = "write_index"
    /\ idxFile' = [idxFile EXCEPT ![fargs.file_id] =
          StoredFile([k \in 1..Len(fstage.all_embeddings) |->
                         NormalizeL2(fstage.all_embeddings[k])])]
    /\ fpc' = "write_metadata"
    /\ UNCHANGED <<docVars, uploadVars, routeVars, chunkVars, mongoVars, backend, metaFile, fargs, fok, fresults, farrival, fstage, fret, searchVars>>

\* lines 116-120: the metadata is written and the token total returned
FaissWriteMetadata ==
    /\ fpc = "write_metadata"
    /\ scall = NoCall
    /\ metaFile' = [metaFile EXCEPT ![fargs.file_id] = StoredFile(fstage.metadata)]
    /\ fpc' = "idle"
    /\ fret' = [status |-> "returned",
                tokens |-> Sum([k \in 1..Len(fstage.metadata) |->
                                   fstage.metadata[k].token_count])]
    /\ fstage' = EmptyStage
    /\ UNCHANGED <<docVars, uploadVars, routeVars, chunkVars, mongoVars, backend, idxFile, fargs, fok, fresults, farrival, searchVars>>


(***************************************************************************)
(* load_faiss_index and the searches of faiss_integration.py.              *)
(***************************************************************************)
\* lines 127-128: both files must exist, or FileNotFoundError is raised
IndexFound(file_id) ==
    /\ file_id \in FileIds
    /\ idxFile[file_id].exists
    /\ metaFile[file_id].exists

\* the score FAISS reports beside the label -1 of a missing neighbour:
\* below every inner product of two unit vectors
PadScore == -(4 * 1000)

PadHit == [idx |-> -1, score |-> PadScore]

RECURSIVE BestFirst(_, _, _)
\* every sequence of min(k, |labels|) distinct labels in which each label
\* scores at least as high as all labels not yet taken
BestFirst(score, labels, k) ==
    IF k = 0 \/ labels = {} THEN {<<>>}
    ELSE LET top == {i \in labels : \A j \in labels : score[i] >= score[j]}
         IN  UNION {{<<i>> \o rest : rest \in BestFirst(score, labels \ {i}, k - 1)} :
                       i \in top}

\* IndexFlatIP.search(query_vector, k): every (scores, indices) row it may
\* return.  The k nearest stored vectors by inner product, best first, in
\* any order among equal scores; when fewer than k vectors are stored the
\* row is filled up with label -1.
IndexSearch(index, query_vector, k) ==
    LET n == Len(index)
        score == [i \in 0..(n - 1) |-> InnerProduct(index[i + 1], query_vector)]
    IN  {[j \in 1..k |-> IF j <= Len(s) THEN [idx |-> s[j], score |-> score[s[j]]] ELSE PadHit] :
            s \in BestFirst(score, 0..(n - 1), k)}

\* metadata[idx] for a Python list: a negative idx counts from the end
PyItem(list, idx) == IF idx >= 0 THEN list[idx + 1] ELSE list[Len(list) + idx + 1]

\* lines 156-157: a copy of the metadata record with the score set
Scored(record, score) ==
    [section_index |-> record.section_index,
     section_title |-> record.section_title,
     content |-> record.content,
     page_start |-> record.page_start,
     page_end |-> record.page_end,
     token_count |-> record.token_count,
     hierarchy_level |-> record.hierarchy_level,
     contains_definitions |-> record.contains_definitions,
     contains_obligations |-> record.contains_obligations,
     contains_dates |-> record.contains_dates,
     file_id |-> record.file_id,
     filename |-> record.filename,
     score |-> score]

RECURSIVE HitRecords(_, _, _)
\* lines 154-159: the loop over indices[0] from position i (1-based) on
HitRecords(hits, metadata, i) ==
    IF i > Len(hits) THEN <<>>
    ELSE (IF hits[i].idx < Len(metadata) /\ hits[i].idx >= -Len(metadata)
          THEN <<Scored(PyItem(metadata, hits[i].idx), hits[i].score)>>
          ELSE <<>>)
         \o HitRecords(hits, metadata, i + 1)

\* a search or a document-info request can start: no reader holds a result,
\* and the build, if one runs, stands between its two writes (lines 114-116)
ReaderReady ==
    /\ backend = "faiss"
    /\ scall = NoCall
    /\ \/ fpc = "idle" /\ fret = NoReturn
       \/ fpc = "write_metadata"

\* search_similar_sections(query, file_id, limit): every list it may return.
\* embed_ok tells whether the embed_query call of line 148 succeeds.
search_similar_sections(query, file_id, limit, embed_ok) ==
    IF file_id = NoFileId \/ ~IndexFound(file_id) \/ ~embed_ok
    THEN {<<>>}
    ELSE {HitRecords(hits, metaFile[file_id].data, 1) :
             hits \in IndexSearch(idxFile[file_id].data, NormalizeL2(Embed(query)), limit)}

\* a filters map with neither key
NoFilters == [page_range |-> <<>>, section_index |-> <<>>]

SearchSimilarSections(query, file_id, limit, embed_ok) ==
    /\ ReaderReady
    /\ \E r \in search_similar_sections(query, file_id, limit, embed_ok) : sres' = r
    /\ sinfo' = NoInfo
    /\ scall' = [op |-> "search", query |-> query, file_id |-> file_id, limit |-> limit,
                 filters |-> NoFilters, embed_ok |-> embed_ok, fallback_ok |-> embed_ok]
    /\ UNCHANGED <<docVars, uploadVars, routeVars, chunkVars, mongoVars, backend, faissVars>>

\* the reader that ran during a build is done with its result
ReaderReturn ==
    /\ fpc # "idle"
    /\ scall # NoCall
    /\ scall' = NoCall
    /\ sres' = <<>>
    /\ sinfo' = NoInfo
    /\ UNCHANGED <<docVars, uploadVars, routeVars, chunkVars, mongoVars, backend, faissVars>>

\* load_faiss_index(file_id): the error it raises, or the index and metadata
load_faiss_index(file_id) ==
    IF IndexFound(file_id)
    THEN [error |-> "none", index |-> idxFile[file_id].data,
          metadata |-> metaFile[file_id].data]
    ELSE [error |-> "FileNotFoundError", index |-> <<>>, metadata |-> <<>>]

\* line 182: the value returned when anything raised
DefaultInfo ==
    [raised |-> FALSE, total_pages |-> 0, total_sections |-> 0, filename |-> "Unknown"]

\* as get_document_info, but the error of load_faiss_index reaches the caller
get_document_info_reraise(file_id) ==
    LET loaded == load_faiss_index(file_id)
    IN  IF loaded.error # "none"
        THEN [DefaultInfo EXCEPT !.raised = TRUE]
        ELSE IF loaded.metadata = <<>> THEN DefaultInfo
             ELSE [raised |-> FALSE,
                   total_pages |->
                       CHOOSE m \in {loaded.metadata[k].page_end : k \in 1..Len(loaded.metadata)} :
                           \A k \in 1..Len(loaded.metadata) : loaded.metadata[k].page_end <= m,
                   total_sections |-> Len(loaded.metadata),
                   filename |-> loaded.metadata[1].filename]

\* get_document_info(file_id); max() of an empty metadata raises too
get_document_info(file_id) ==
    LET loaded == load_faiss_index(file_id)
    IN  IF loaded.error # "none" \/ loaded.metadata = <<>>
        THEN DefaultInfo
        ELSE [raised |-> FALSE,
              total_pages |->
                  CHOOSE m \in {loaded.metadata[k].page_end : k \in 1..Len(loaded.metadata)} :
                      \A k \in 1..Len(loaded.metadata) : loaded.metadata[k].page_end <= m,
              total_sections |-> Len(loaded.metadata),
              filename |-> loaded.metadata[1].filename]

GetDocumentInfo(file_id) ==
    /\ ReaderReady
    /\ sinfo' = get_document_info(file_id)
    /\ sres' = <<>>
    /\ scall' = [op |-> "info", query |-> "", file_id |-> file_id, limit |-> 0,
                 filters |-> NoFilters, embed_ok |-> TRUE, fallback_ok |-> TRUE]
    /\ UNCHANGED <<docVars, uploadVars, routeVars, chunkVars, mongoVars, backend, faissVars>>

(***************************************************************************)
(* Metadata pre-filters and filtered_vector_search.                        *)
(***************************************************************************)
\* what extract_query_metadata finds in a query: a page number ("page N"),
\* a section number ("section N"), each present (<<N>>) or not (<<>>)
QueryMetadata ==
    {[page |-> p, section |-> s] :
        p \in {<<>>} \cup {<<n>> : n \in 0..MaxPage},
        s \in {<<>>} \cup {<<n>> : n \in 0..MaxSections}}

\* metadata["has_metadata"]
HasMetadata(md) == md.page # <<>> \/ md.section # <<>>

generate_prefilters(md) ==
    [page_range |-> IF md.page # <<>> THEN <<md.page[1] - 1, md.page[1] + 1>> ELSE <<>>,
     section_index |-> IF md.section # <<>> THEN <<md.section[1]>> ELSE <<>>]

apply_filters(item, filters) ==
    /\ filters.page_range # <<>> =>
          \/ filters.page_range[1] <= item.page_start /\ item.page_start <= filters.page_range[2]
          \/ filters.page_range[1] <= item.page_end /\ item.page_end <= filters.page_range[2]
    /\ filters.section_index # <<>> => item.section_index = filters.section_index[1]

\* lines 406-409: the Python positions of the records that pass the filters
FilteredIndices(metadata, filters) ==
    {i \in 0..(Len(metadata) - 1) : apply_filters(metadata[i + 1], filters)}

RECURSIVE FilteredHitRecords(_, _, _, _)
\* lines 421-426: the loop over indices[0] from position i (0-based) on
FilteredHitRecords(hits, metadata, filtered_indices, i) ==
    IF i >= Len(hits) THEN <<>>
    ELSE (IF hits[i + 1].idx \in filtered_indices /\ i < FilterCap
          THEN <<Scored(PyItem(metadata, hits[i + 1].idx), hits[i + 1].score)>>
          ELSE <<>>)
         \o FilteredHitRecords(hits, metadata, filtered_indices, i + 1)

\* as filtered_vector_search, but an empty filtered set returns nothing
filtered_vector_search_no_fallback(query, file_id, filters, embed_ok, fallback_ok) ==
    IF ~IndexFound(file_id)
    THEN search_similar_sections(query, file_id, FallbackLimit, fallback_ok)
    ELSE LET metadata == metaFile[file_id].data
             filtered_indices == FilteredIndices(metadata, filters)
         IN  IF filtered_indices = {} THEN {<<>>}
             ELSE IF ~embed_ok
             THEN search_similar_sections(query, file_id, FallbackLimit, fallback_ok)
             ELSE {FilteredHitRecords(hits, metadata, filtered_indices, 0) :
                      hits \in IndexSearch(idxFile[file_id].data, NormalizeL2(Embed(query)),
                                           Cardinality(filtered_indices))}

\* filtered_vector_search(query, file_id, filters): every list it may return.
\* embed_ok tells whether the embed_query call of line 415 succeeds,
\* fallback_ok whether the one inside the fallback search does.
filtered_vector_search(query, file_id, filters, embed_ok, fallback_ok) ==
    IF ~IndexFound(file_id)
    THEN search_similar_sections(query, file_id, FallbackLimit, fallback_ok)
    ELSE LET metadata == metaFile[file_id].data
             filtered_indices == FilteredIndices(metadata, filters)
         IN  IF filtered_indices = {}
             THEN search_similar_sections(query, file_id, FallbackLimit, fallback_ok)
             ELSE IF ~embed_ok
             THEN search_similar_sections(query, file_id, FallbackLimit, fallback_ok)
             ELSE {FilteredHitRecords(hits, metadata, filtered_indices, 0) :
                      hits \in IndexSearch(idxFile[file_id].data, NormalizeL2(Embed(query)),
                                           Cardinality(filtered_indices))}

\* process_query_search, lines 192-197: a query that names a page or a
\* section is searched with the filters generated from it
FilteredVectorSearch(query, file_id, md, embed_ok, fallback_ok) ==
    /\ Quiescent
    /\ HasMetadata(md)
    /\ \E r \in filtered_vector_search(query, file_id, generate_prefilters(md),
                                       embed_ok, fallback_ok) : sres' = r
    /\ sinfo' = NoInfo
    /\ scall' = [op |-> "filtered", query |-> query, file_id |-> file_id, limit |-> FilterCap,
                 filters |-> generate_prefilters(md), embed_ok |-> embed_ok,
                 fallback_ok |-> fallback_ok]
    /\ UNCHANGED <<docVars, uploadVars, routeVars, chunkVars, mongoVars, backend, faissVars>>

(***************************************************************************)
(* handle_document_query and handle_hybrid_query: the sections gathered    *)
(* from the documents of the session.                                      *)
(***************************************************************************)
\* handle_document.py: limit=5 of line 17 and [:5] of line 25
DocumentLimit == 5
\* handle_hybrid.py: limit=3 of line 15 and [:3] of line 23
HybridLimit == 3

\* state.session_files: the file ids of the session, in stored order
SessionFiles ==
    {<<>>} \cup {<<f>> : f \in FileIds}
           \cup {fg \in FileIds \X FileIds : fg[1] # fg[2]}

RECURSIVE GatherSections(_, _, _, _, _)
\* the loop over state.session_files from position i on: every list
\* all_relevant_sections may be after it.  embed_ok holds the file ids for
\* which the embed_query call of the search succeeds.
GatherSections(query, session_files, limit, embed_ok, i) ==
    IF i > Len(session_files) THEN {<<>>}
    ELSE {results \o rest :
             results \in search_similar_sections(query, session_files[i], limit,
                                                 session_files[i] \in embed_ok),
             rest \in GatherSections(query, session_files, limit, embed_ok, i + 1)}

RECURSIVE InsertByScore(_, _)
\* x goes before the first record that does not score higher than x
InsertByScore(x, sorted) ==
    IF sorted = <<>> THEN <<x>>
    ELSE IF Head(sorted).score > x.score
         THEN <<Head(sorted)>> \o InsertByScore(x, Tail(sorted))
         ELSE <<x>> \o sorted

RECURSIVE SortByScore(_)
\* list.sort(key=score, reverse=True): descending, and stable, so records
\* of equal score keep the order they were gathered in
SortByScore(sections) ==
    IF sections = <<>> THEN <<>>
    ELSE InsertByScore(Head(sections), SortByScore(Tail(sections)))

\* sections[:n]
FirstN(sections, n) == SubSeq(sections, 1, Min(n, Len(sections)))

\* handle_document_query, lines 9-26: every top_sections it may compute
\* (empty when the session has no files, lines 9-11)
handle_document_query(query, session_files, embed_ok) ==
    {FirstN(SortByScore(all), DocumentLimit) :
        all \in GatherSections(query, session_files, DocumentLimit, embed_ok, 1)}

\* handle_hybrid_query, lines 10-23: every top_sections it may compute
handle_hybrid_query(query, session_files, embed_ok) ==
    {FirstN(SortByScore(all), HybridLimit) :
        all \in GatherSections(query, session_files, HybridLimit, embed_ok, 1)}

\* no handler runs and no result is held
AnswerIdle == scall = NoCall

HandleDocumentQuery(query, session_files, embed_ok) ==
    /\ AnswerIdle
    /\ \E top \in handle_document_query(query, session_files, embed_ok) : sres' = top
    /\ scall' = [op |-> "document", query |-> query, session_files |-> session_files,
                 limit |-> DocumentLimit, embed_ok |-> embed_ok]
    /\ UNCHANGED <<docVars, uploadVars, routeVars, chunkVars, mongoVars, backend, faissVars, sinfo>>

HandleHybridQuery(query, session_files, embed_ok) ==
    /\ AnswerIdle
    /\ \E top \in handle_hybrid_query(query, session_files, embed_ok) : sres' = top
    /\ scall' = [op |-> "hybrid", query |-> query, session_files |-> session_files,
                 limit |-> HybridLimit, embed_ok |-> embed_ok]
    /\ UNCHANGED <<docVars, uploadVars, routeVars, chunkVars, mongoVars, backend, faissVars, sinfo>>

\* the handler has returned its state; the persisted files stay
AnswerReturn ==
    /\ scall # NoCall
    /\ scall' = NoCall
    /\ sres' = <<>>
    /\ UNCHANGED <<docVars, uploadVars, routeVars, chunkVars, mongoVars, backend, faissVars, sinfo>>

(***************************************************************************)
(* create_embeddings_batch of create_vectorStore.py (MongoDB ingestion).   *)
(***************************************************************************)
MPending == [done |-> FALSE, raised |-> FALSE, docs |-> <<>>, tokens |-> 0]

NoUpload == [sections |-> <<>>, file_id |-> 0]

\* line 170: sections[i:i + batch_size], batch_index = 0, 1, ...
MongoBatch(sections, batch_index) ==
    SubSeq(sections, batch_index * BatchSize + 1,
           Min(batch_index * BatchSize + BatchSize, Len(sections)))

\* lines 139-153: the document stored for chunk j of a batch
EmbeddingDoc(section, embedding, file_id, batch_index, j) ==
    [file_id |-> file_id,
     section_index |-> batch_index * BatchSize + j,
     content |-> section.content,
     embedding |-> embedding,
     page_start |-> section.page_start,
     page_end |-> section.page_end,
     token_count |-> section.token_count]

\* as process_batch_sync, but the embedding error escapes the worker
process_batch_sync_reraise(batch_sections, batch_index, file_id, ok) ==
    IF ok
    THEN [done |-> TRUE, raised |-> FALSE,
          docs |-> [j \in 1..Len(batch_sections) |->
                       EmbeddingDoc(batch_sections[j], Embed(batch_sections[j].content),
                                    file_id, batch_index, j - 1)],
          tokens |-> Sum([j \in 1..Len(batch_sections) |->
                             CountTokens(batch_sections[j].content)])]
    ELSE [done |-> TRUE, raised |-> TRUE, docs |-> <<>>, tokens |-> 0]

\* process_batch_sync(batch_sections, batch_index); ok tells whether the
\* embed_documents call of the batch succeeds
process_batch_sync(batch_sections, batch_index, file_id, ok) ==
    IF ok
    THEN [done |-> TRUE, raised |-> FALSE,
          docs |-> [j \in 1..Len(batch_sections) |->
                       EmbeddingDoc(batch_sections[j], Embed(batch_sections[j].content),
                                    file_id, batch_index, j - 1)],
          tokens |-> Sum([j \in 1..Len(batch_sections) |->
                             CountTokens(batch_sections[j].content)])]
    ELSE [done |-> TRUE, raised |-> FALSE, docs |-> <<>>, tokens |-> 0]

\* as GatherOrder, but the results are taken as the workers finished
GatherOrder_arrival(results, arrival) == [k \in 1..Len(arrival) |-> arrival[k] + 1]

\* asyncio.gather(*futures): the results in the order of the futures
GatherOrder(results, arrival) == [k \in 1..Len(results) |-> k]

\* lines 188-192: all_docs and total_tokens
GatherDocs(results, arrival) ==
    LET order == GatherOrder(results, arrival)
    IN  [all_docs |-> Flatten([k \in 1..Len(order) |-> results[order[k]].docs]),
         total_tokens |-> Sum([k \in 1..Len(order) |->
                                  IF results[order[k]].docs # <<>>
                                  THEN results[order[k]].tokens ELSE 0])]

MongoQuiescent ==
    /\ mpc = "idle"
    /\ mret = NoReturn

\* main.py:134 draws a fresh file_id, main.py:174 makes the call
MongoBegin(sections) ==
    /\ backend = "mongo"
    /\ MongoQuiescent
    /\ muploads < MaxUploads
    /\ muploads' = muploads + 1
    /\ mpc' = "embedding"
    /\ margs' = [sections |-> sections, file_id |-> muploads + 1]
    /\ mok' = {}
    /\ mresults' = [b \in 1..NumBatches(sections) |-> MPending]
    /\ marrival' = <<>>
    /\ UNCHANGED <<docVars, uploadVars, routeVars, chunkVars, backend, faissVars, searchVars, embeddings_collection, mret>>

\* lines 174-182: one worker runs process_batch_sync on batch batch_index
MongoEmbedBatch(batch_index, ok) ==
    /\ mpc = "embedding"
    /\ batch_index + 1 \in DOMAIN mresults
    /\ ~mresults[batch_index + 1].done
    /\ Cardinality({c \in 1..batch_index : ~mresults[c].done}) < MaxWorkers
    /\ mresults' = [mresults EXCEPT ![batch_index + 1] =
          process_batch_sync(MongoBatch(margs.sections, batch_index), batch_index,
                             margs.file_id, ok)]
    /\ mok' = IF ok THEN mok \cup {batch_index} ELSE mok
    /\ marrival' = Append(marrival, batch_index)
    /\ UNCHANGED <<docVars, uploadVars, routeVars, chunkVars, backend, faissVars, searchVars, embeddings_collection, muploads, mpc,
                   margs, mret>>

\* lines 185-199: gather re-raises a worker's exception; otherwise the
\* documents are inserted in one insert_many and the token total returned
MongoCollect ==
    /\ mpc = "embedding"
    /\ \A b \in DOMAIN mresults : mresults[b].done
    /\ IF \E b \in DOMAIN mresults : mresults[b].raised
       THEN /\ mret' = [status |-> "raised", tokens |-> 0]
            /\ UNCHANGED embeddings_collection
       ELSE /\ mret' = [status |-> "returned",
                        tokens |-> GatherDocs(mresults, marrival).total_tokens]
            /\ embeddings_collection' =
                  embeddings_collection \o GatherDocs(mresults, marrival).all_docs
    /\ mpc' = "idle"
    /\ UNCHANGED <<docVars, uploadVars, routeVars, chunkVars, backend, faissVars, searchVars, muploads, margs, mok, mresults, marrival>>

\* the caller is done with the returned total: the frame of the call is gone
MongoReturn ==
    /\ mpc = "idle"
    /\ mret # NoReturn
    /\ margs' = NoUpload
    /\ mok' = {}
    /\ mresults' = <<>>
    /\ marrival' = <<>>
    /\ mret' = NoReturn
    /\ UNCHANGED <<docVars, uploadVars, routeVars, chunkVars, backend, faissVars, searchVars, embeddings_collection, muploads, mpc>>

(***************************************************************************)
(* services/doc_chat.py: process_and_store_pdf and delete_document over    *)
(* the vector collection and db.document_summaries.  A document is named   *)
(* by its filename.                                                        *)
(***************************************************************************)
\* the most summary documents the model stores
MaxStored == 3
\* the most chunks create_intelligent_chunks makes of a PDF in the model
MaxDocChunks == 2

\* generate_file_hash(pdf_path) of the PDFs uploaded
FileHashes == {"h1", "h2"}

\* lines 296-309: the documents stored for the chunks of a PDF
ChunkDocuments(filename, file_hash, n) ==
    [i \in 1..n |-> [filename |-> filename, file_hash |-> file_hash,
                     chunk_index |-> i - 1, total_chunks |-> n]]

\* lines 323-332
SummaryDocument(filename, file_hash, n) ==
    [filename |-> filename, file_hash |-> file_hash, total_chunks |-> n,
     processing_status |-> "completed"]

\* where a call may raise
StoreFailures == {"none", "summary", "from_documents", "insert_summary"}

DeleteFailures == {"none", "delete_many", "delete_one"}

\* process_and_store_pdf(pdf_path, filename).  has_text tells whether
\* extract_text_with_page_numbers finds text on a page, n is the number
\* of chunks, fail the call that raises.  The chunks are stored before
\* the summary (lines 312-334); the except of lines 346-353 reports.
ProcessAndStorePdf(filename, file_hash, has_text, n, fail) ==
    /\ Len(document_summaries) < MaxStored
    /\ Len(collection) + n <= MaxStored * MaxDocChunks
    /\ IF \E i \in 1..Len(collection) : collection[i].file_hash = file_hash
       THEN /\ dret' = [op |-> "store", filename |-> filename, success |-> TRUE,
                        message |-> "File already exists in database", chunks |-> 0]
            /\ UNCHANGED <<collection, document_summaries>>
       ELSE IF ~has_text
       THEN /\ dret' = [op |-> "store", filename |-> filename, success |-> FALSE,
                        message |-> "No text could be extracted from the PDF", chunks |-> 0]
            /\ UNCHANGED <<collection, document_summaries>>
       ELSE /\ collection' =
                  IF fail \in {"summary", "from_documents"} THEN collection
                  ELSE collection \o ChunkDocuments(filename, file_hash, n)
            /\ document_summaries' =
                  IF fail = "none"
                  THEN Append(document_summaries, SummaryDocument(filename, file_hash, n))
                  ELSE document_summaries
            /\ dret' = IF fail = "none"
                       THEN [op |-> "store", filename |-> filename, success |-> TRUE,
                             message |-> "Successfully processed", chunks |-> n]
                       ELSE [op |-> "store", filename |-> filename, success |-> FALSE,
                             message |-> "Error processing PDF", chunks |-> 0]
    /\ UNCHANGED <<backend, faissVars, searchVars, mongoVars, routeVars, chunkVars, uploadVars>>

\* delete_many({"metadata.filename": filename}): the documents left
DeleteMany(docs, filename) == SelectSeq(docs, LAMBDA d : d.filename # filename)

\* delete_one({"filename": filename}): the first match is removed
DeleteOne(docs, filename) ==
    IF \E i \in 1..Len(docs) : docs[i].filename = filename
    THEN LET first == CHOOSE i \in 1..Len(docs) :
                          /\ docs[i].filename = filename
                          /\ \A j \in 1..(i - 1) : docs[j].filename # filename
         IN  SubSeq(docs, 1, first - 1) \o SubSeq(docs, first + 1, Len(docs))
    ELSE docs

\* delete_document(filename), lines 525-553; fail names the call that raises
DeleteDocument(filename, fail) ==
    /\ collection' = IF fail = "delete_many" THEN collection
                     ELSE DeleteMany(collection, filename)
    /\ document_summaries' = IF fail = "none" THEN DeleteOne(document_summaries, filename)
                             ELSE document_summaries
    /\ dret' =
          IF fail # "none"
          THEN [op |-> "delete", filename |-> filename, success |-> FALSE,
                message |-> "Error deleting document", chunks |-> 0]
          ELSE LET chunks_deleted == Len(collection) - Len(DeleteMany(collection, filename))
                   summaries_deleted ==
                       Len(document_summaries) - Len(DeleteOne(document_summaries, filename))
               IN  IF chunks_deleted > 0 \/ summaries_deleted > 0
                   THEN [op |-> "delete", filename |-> filename, success |-> TRUE,
                         message |-> "deleted successfully", chunks |-> chunks_deleted]
                   ELSE [op |-> "delete", filename |-> filename, success |-> FALSE,
                         message |-> "Document not found", chunks |-> 0]
    /\ UNCHANGED <<backend, faissVars, searchVars, mongoVars, routeVars, chunkVars, uploadVars>>

(***************************************************************************)
(* route_query of nodes/routing.py (LegalChatGraph._route_query of         *)
(* services/legal_graph.py has the same body) and the file records that    *)
(* upload_file of main.py writes.                                          *)
(***************************************************************************)
Sessions == {"s1", "s2"}

UploadNames == {"lease.pdf", "a/b.pdf"}

\* main.py:135: "/", "\" and ".." are replaced by "_"
SafeFilename(name) == IF name = "a/b.pdf" THEN "a_b.pdf" ELSE name

\* main.py:183-195: the record upload_file stores for a file
FileMetadata(file_id, session_id, name) ==
    [file_id |-> file_id,
     session_id |-> session_id,
     original_filename |-> name,
     safe_filename |-> SafeFilename(name),
     status |-> "processed"]

\* main.py:197: files_collection.insert_one(file_metadata), file_id fresh
InsertFileRecord(session_id, name) ==
    /\ Len(files_collection) < MaxFiles
    /\ files_collection' =
          Append(files_collection,
                 FileMetadata(Len(files_collection) + 1, session_id, name))
    /\ UNCHANGED <<docVars, uploadVars, backend, faissVars, searchVars, mongoVars, chunkVars, rstate, rcall>>

\* a find() projection: the listed fields a record has; a field the record
\* lacks is left out of the result
Project(record, fields) ==
    [k \in (DOMAIN record) \cap fields |-> record[k]]

\* routing.py:9-14: the records of the session, projected
FindSessionFiles(session_id) ==
    LET found == SelectSeq(files_collection, LAMBDA r : r.session_id = session_id)
    IN  [i \in 1..Len(found) |-> Project(found[i], {"file_id", "filename"})]

\* the replies of the classifier: text with white space around it
ReplyBodies ==
    {"document", "Document", "GENERAL", "hybrid", "Hybrid", "banana", "document.", ""}

Replies == [lead : {"", " "}, body : ReplyBodies, trail : {"", "\n"}]

NoReply == [lead |-> "", body |-> "", trail |-> ""]

\* what the chain does when invoked: raise, or return a reply
LlmOutcomes ==
    {[raises |-> TRUE, reply |-> NoReply]} \cup
    {[raises |-> FALSE, reply |-> r] : r \in Replies}

\* str.strip(): the white space around the text is removed
Strip(reply) == reply.body

\* str.lower()
Lower(text) ==
    CASE text = "Document" -> "document"
      [] text = "GENERAL" -> "general"
      [] text = "Hybrid" -> "hybrid"
      [] OTHER -> text

RouteLabels == {"document", "general", "hybrid"}

NoRoute == [session_id |-> "", route_decision |-> "none", session_files |-> <<>>,
            error |-> "", llm_called |-> FALSE]

NoRouteCall == [session_id |-> "", lookup_ok |-> TRUE, llm |-> [raises |-> TRUE, reply |-> NoReply]]

\* routing.py:48-51: the except branch
RouteFailed(state, message) ==
    [state EXCEPT !.route_decision = "general", !.error = message]

\* routing.py:44-46
NormalizedDecision(reply) ==
    IF Lower(Strip(reply)) \in RouteLabels THEN Lower(Strip(reply)) ELSE "general"

\* route_query(state, llm): the state it returns; lookup_ok tells whether
\* files_collection.find succeeds, llm what the chain does when invoked
route_query(state, lookup_ok, llm) ==
    IF ~lookup_ok THEN RouteFailed(state, "find failed")
    ELSE LET session_files == FindSessionFiles(state.session_id)
             found == [state EXCEPT !.session_files = session_files]
         IN  IF session_files = <<>> THEN [found EXCEPT !.route_decision = "general"]
             ELSE IF \E i \in 1..Len(session_files) :
                        "filename" \notin DOMAIN session_files[i]
                  THEN RouteFailed(found, "KeyError: 'filename'")
                  ELSE IF llm.raises
                       THEN RouteFailed([found EXCEPT !.llm_called = TRUE], "llm failed")
                       ELSE [found EXCEPT !.llm_called = TRUE,
                                          !.route_decision = NormalizedDecision(llm.reply)]

RouteQuery(session_id, lookup_ok, llm) ==
    /\ rcall' = [session_id |-> session_id, lookup_ok |-> lookup_ok, llm |-> llm]
    /\ rstate' = route_query([NoRoute EXCEPT !.session_id = session_id], lookup_ok, llm)
    /\ UNCHANGED <<docVars, uploadVars, backend, faissVars, searchVars, mongoVars, chunkVars, files_collection>>

(***************************************************************************)
(* LegalDocumentChunker of utils/manage_chunking.py.  A stripped line, a   *)
(* title and a content are the sequences of their words: the text is the   *)
(* words joined by single spaces.                                          *)
(***************************************************************************)
Words ==
    {"ARTICLE", "I", "1.", "Scope", "(a)", "rent.", "The", "tenant", "pays", "ab",
     "indemnification,"}

\* len(word)
WordLen(w) ==
    CASE w = "ARTICLE" -> 7 [] w = "I" -> 1 [] w = "1." -> 2 [] w = "Scope" -> 5
      [] w = "(a)" -> 3 [] w = "rent." -> 5 [] w = "The" -> 3 [] w = "tenant" -> 6
      [] w = "pays" -> 4 [] w = "ab" -> 2 [] w = "indemnification," -> 16
      [] OTHER -> 8

\* tokens the tokenizer counts for a word: one word may be several tokens
WordTokens(w) ==
    CASE w \in {"ARTICLE", "1."} -> 2
      [] w = "(a)" -> 3
      [] w = "rent." -> 4
      [] w = "indemnification," -> 19
      [] OTHER -> 1

\* the word is made of letters only
IsAlpha(w) == w \in {"ARTICLE", "I", "Scope", "The", "tenant", "pays", "ab"}

\* how the patterns of lines 19-25 see the start of the word
WordKind(w) ==
    CASE w = "ARTICLE" -> "division"
      [] w = "1." -> "numdot"
      [] w = "(a)" -> "paren_lower"
      [] OTHER -> "plain"

\* [A-Z] under re.IGNORECASE matches the first character
StartsLetter(w) == w \notin {"1.", "(a)"}

\* ([IVX]+|\d+) under re.IGNORECASE matches at the start of the word
StartsRomanOrDigit(w) == w \in {"I", "indemnification,", "1."}

\* the lines a text is made of, with the white space around their words
SampleLines ==
    {[lead |-> 2, words |-> <<>>, trail |-> 0],
     [lead |-> 0, words |-> <<"ARTICLE", "I">>, trail |-> 0],
     [lead |-> 1, words |-> <<"1.", "Scope">>, trail |-> 1],
     [lead |-> 0, words |-> <<"(a)", "rent.">>, trail |-> 0],
     [lead |-> 0, words |-> <<"The", "tenant">>, trail |-> 0],
     [lead |-> 0, words |-> <<"The", "tenant", "pays", "rent.">>, trail |-> 1],
     [lead |-> 0, words |-> <<"ab">>, trail |-> 0],
     [lead |-> 1, words |-> <<"indemnification,", "indemnification,", "indemnification,">>,
      trail |-> 0]}

\* text.split('\n') of the texts given to the chunker
Texts == UNION {[1..n -> SampleLines] : n \in 1..MaxLines}

\* line.strip()
StripLine(raw) == raw.words

\* len(line) of a stripped line
LineLen(line) ==
    IF line = <<>> THEN 0
    ELSE Sum([k \in 1..Len(line) |-> WordLen(line[k])]) + (Len(line) - 1)

\* count_tokens(text)
count_tokens(words) == Sum([k \in 1..Len(words) |-> WordTokens(words[k])])

\* is_section_header(line), the line already stripped
is_section_header(line) ==
    IF LineLen(line) < 3 THEN FALSE
    ELSE \/ /\ Len(line) >= 2
            /\ WordKind(line[1]) = "division"
            /\ StartsRomanOrDigit(line[2])
         \/ /\ Len(line) >= 2
            /\ WordKind(line[1]) = "numdot"
            /\ StartsLetter(line[2])
         \/ /\ \A k \in 1..Len(line) : IsAlpha(line[k])
            /\ LineLen(line) >= 4
         \/ WordKind(line[1]) \in {"boilerplate", "topic"}
         \/ WordKind(line[1]) \in {"paren_lower", "paren_upper"}
         \/ WordKind(line[1]) = "paren_num"

\* current_section = None
NoSection == <<>>

\* the locals of extract_hierarchical_sections before its loop
EmptyExtract ==
    [sections |-> <<>>, current_section |-> NoSection, current_content |-> <<>>,
     section_hierarchy |-> <<>>]

\* the dict appended at lines 54-61 and 83-90
MakeSection(st, line_start, line_end) ==
    [section_title |-> st.current_section,
     content |-> Flatten(st.current_content),
     hierarchy |-> st.section_hierarchy,
     line_start |-> line_start,
     line_end |-> line_end,
     token_count |-> count_tokens(Flatten(st.current_content))]

\* as FlushSection, but a section is emitted for every header
FlushSection_header_only(st, line_start, line_end) ==
    IF st.current_section # NoSection
    THEN Append(st.sections, MakeSection(st, line_start, line_end))
    ELSE st.sections

\* lines 51-61 and 80-90: sections after the section in progress is saved
FlushSection(st, line_start, line_end) ==
    IF /\ st.current_section # NoSection
       /\ st.current_content # <<>>
       /\ Flatten(st.current_content) # <<>>
    THEN Append(st.sections, MakeSection(st, line_start, line_end))
    ELSE st.sections

\* as NextHierarchy, but a numbered clause is appended without truncation
NextHierarchy_no_truncate(section_hierarchy, line) ==
    IF WordKind(line[1]) = "division" THEN <<line>>
    ELSE IF WordKind(line[1]) = "paren_lower"
         THEN Append(SubSeq(section_hierarchy, 1, Min(2, Len(section_hierarchy))), line)
         ELSE Append(section_hierarchy, line)

\* lines 68-75: the hierarchy after a header
NextHierarchy(section_hierarchy, line) ==
    IF WordKind(line[1]) = "division" THEN <<line>>
    ELSE IF WordKind(line[1]) = "numdot"
         THEN Append(SubSeq(section_hierarchy, 1, Min(1, Len(section_hierarchy))), line)
         ELSE IF WordKind(line[1]) = "paren_lower"
              THEN Append(SubSeq(section_hierarchy, 1, Min(2, Len(section_hierarchy))), line)
              ELSE Append(section_hierarchy, line)

\* as ExtractStep, but the body lines collected so far are kept at a header
ExtractStep_keep_content(st, i, raw) ==
    LET line == StripLine(raw)
    IN  IF line = <<>> THEN st
        ELSE IF is_section_header(line)
             THEN [sections |-> FlushSection(st, i - Len(st.current_content), i - 1),
                   current_section |-> line,
                   current_content |-> st.current_content,
                   section_hierarchy |-> NextHierarchy(st.section_hierarchy, line)]
             ELSE [st EXCEPT !.current_content = Append(@, line)]

\* lines 45-77: one turn of the loop, i the index of the line from 0
ExtractStep(st, i, raw) ==
    LET line == StripLine(raw)
    IN  IF line = <<>> THEN st
        ELSE IF is_section_header(line)
             THEN [sections |-> FlushSection(st, i - Len(st.current_content), i - 1),
                   current_section |-> line,
                   current_content |-> <<>>,
                   section_hierarchy |-> NextHierarchy(st.section_hierarchy, line)]
             ELSE [st EXCEPT !.current_content = Append(@, line)]

RECURSIVE ExtractLoop(_, _, _)
\* line 44: for i, line in enumerate(lines)
ExtractLoop(lines, i, st) ==
    IF i >= Len(lines) THEN st
    ELSE ExtractLoop(lines, i + 1, ExtractStep(st, i, lines[i + 1]))

extract_hierarchical_sections(lines) ==
    LET st == ExtractLoop(lines, 0, EmptyExtract)
    IN  FlushSection(st, Len(lines) - Len(st.current_content), Len(lines) - 1)

\* f"(Part {k})"
PartSuffix(k) ==
    CASE k = 1 -> "(Part 1)" [] k = 2 -> "(Part 2)" [] k = 3 -> "(Part 3)"
      [] k = 4 -> "(Part 4)" [] OTHER -> "(Part n)"

\* as FitChunk, but the overlap is taken from the start of the previous content
FitChunk_first_words(sections, i) ==
    LET section == sections[i]
        base == [section_title |-> section.section_title,
                 content |-> section.content,
                 hierarchy |-> section.hierarchy,
                 line_start |-> section.line_start,
                 line_end |-> section.line_end,
                 token_count |-> section.token_count,
                 is_split |-> FALSE,
                 has_overlap |-> FALSE,
                 overlap_source |-> NoSection,
                 part_number |-> 0,
                 total_parts |-> 0]
    IN  IF i > 1 /\ sections[i - 1].token_count > 0
        THEN LET prev_words == sections[i - 1].content
                 overlap_tokens == (count_tokens(prev_words) * OverlapPct) \div 100
                 overlap_words ==
                     IF Len(prev_words) > overlap_tokens
                     THEN SubSeq(prev_words, 1, overlap_tokens)
                     ELSE prev_words
             IN  IF overlap_tokens > 0
                 THEN [base EXCEPT !.content = overlap_words \o section.content,
                                   !.has_overlap = TRUE,
                                   !.overlap_source = sections[i - 1].section_title]
                 ELSE base
        ELSE base

\* lines 104-120: the chunk of section i (from 1) that fits in max_tokens; a
\* key the dict lacks reads FALSE, 0 or NoSection
FitChunk(sections, i) ==
    LET section == sections[i]
        base == [section_title |-> section.section_title,
                 content |-> section.content,
                 hierarchy |-> section.hierarchy,
                 line_start |-> section.line_start,
                 line_end |-> section.line_end,
                 token_count |-> section.token_count,
                 is_split |-> FALSE,
                 has_overlap |-> FALSE,
                 overlap_source |-> NoSection,
                 part_number |-> 0,
                 total_parts |-> 0]
    IN  IF i > 1 /\ sections[i - 1].token_count > 0
        THEN LET prev_words == sections[i - 1].content
                 overlap_tokens == (count_tokens(prev_words) * OverlapPct) \div 100
                 overlap_words ==
                     IF Len(prev_words) > overlap_tokens
                     THEN SubSeq(prev_words, Len(prev_words) - overlap_tokens + 1,
                                 Len(prev_words))
                     ELSE prev_words
             IN  IF overlap_tokens > 0
                 THEN [base EXCEPT !.content = overlap_words \o section.content,
                                   !.has_overlap = TRUE,
                                   !.overlap_source = sections[i - 1].section_title]
                 ELSE base
        ELSE base

\* as SplitChunks, but total_parts is rounded down
SplitChunks_parts_floor(section) ==
    LET words == section.content
        chunk_size == MaxTokens - Reserve
        overlap_size == (chunk_size * OverlapPct) \div 100
        total_parts == (Len(words) + chunk_size - 1) \div chunk_size
        Piece(k) ==
            LET j == (k - 1) * chunk_size
                chunk_words == SubSeq(words, j + 1, Min(j + chunk_size, Len(words)))
                overlap_words == SubSeq(words, Max(0, j - overlap_size) + 1, j)
                chunk_content == IF j > 0 THEN overlap_words \o chunk_words ELSE chunk_words
            IN  [section_title |-> Append(section.section_title, PartSuffix(j \div chunk_size + 1)),
                 content |-> chunk_content,
                 hierarchy |-> section.hierarchy,
                 line_start |-> -1,
                 line_end |-> -1,
                 token_count |-> count_tokens(chunk_content),
                 is_split |-> TRUE,
                 has_overlap |-> j > 0,
                 overlap_source |-> NoSection,
                 part_number |-> j \div chunk_size + 1,
                 total_parts |-> Len(words) \div chunk_size]
    IN  [k \in 1..total_parts |-> Piece(k)]

\* as SplitChunks, but no piece is given the overlap words
SplitChunks_no_overlap(section) ==
    LET words == section.content
        chunk_size == MaxTokens - Reserve
        overlap_size == (chunk_size * OverlapPct) \div 100
        total_parts == (Len(words) + chunk_size - 1) \div chunk_size
        Piece(k) ==
            LET j == (k - 1) * chunk_size
                chunk_words == SubSeq(words, j + 1, Min(j + chunk_size, Len(words)))
                overlap_words == SubSeq(words, Max(0, j - overlap_size) + 1, j)
                chunk_content == chunk_words
            IN  [section_title |-> Append(section.section_title, PartSuffix(j \div chunk_size + 1)),
                 content |-> chunk_content,
                 hierarchy |-> section.hierarchy,
                 line_start |-> -1,
                 line_end |-> -1,
                 token_count |-> count_tokens(chunk_content),
                 is_split |-> TRUE,
                 has_overlap |-> j > 0,
                 overlap_source |-> NoSection,
                 part_number |-> j \div chunk_size + 1,
                 total_parts |-> total_parts]
    IN  [k \in 1..total_parts |-> Piece(k)]

\* as SplitChunks, but token_count is the number of words of the piece
SplitChunks_word_count(section) ==
    LET words == section.content
        chunk_size == MaxTokens - Reserve
        overlap_size == (chunk_size * OverlapPct) \div 100
        total_parts == (Len(words) + chunk_size - 1) \div chunk_size
        Piece(k) ==
            LET j == (k - 1) * chunk_size
                chunk_words == SubSeq(words, j + 1, Min(j + chunk_size, Len(words)))
                overlap_words == SubSeq(words, Max(0, j - overlap_size) + 1, j)
                chunk_content == IF j > 0 THEN overlap_words \o chunk_words ELSE chunk_words
            IN  [section_title |-> Append(section.section_title, PartSuffix(j \div chunk_size + 1)),
                 content |-> chunk_content,
                 hierarchy |-> section.hierarchy,
                 line_start |-> -1,
                 line_end |-> -1,
                 token_count |-> Len(chunk_content),
                 is_split |-> TRUE,
                 has_overlap |-> j > 0,
                 overlap_source |-> NoSection,
                 part_number |-> j \div chunk_size + 1,
                 total_parts |-> total_parts]
    IN  [k \in 1..total_parts |-> Piece(k)]

\* lines 123-147: the chunks of a section above max_tokens
SplitChunks(section) ==
    LET words == section.content
        chunk_size == MaxTokens - Reserve
        overlap_size == (chunk_size * OverlapPct) \div 100
        total_parts == (Len(words) + chunk_size - 1) \div chunk_size
        Piece(k) ==
            LET j == (k - 1) * chunk_size
                chunk_words == SubSeq(words, j + 1, Min(j + chunk_size, Len(words)))
                overlap_words == SubSeq(words, Max(0, j - overlap_size) + 1, j)
                chunk_content == IF j > 0 THEN overlap_words \o chunk_words ELSE chunk_words
            IN  [section_title |-> Append(section.section_title, PartSuffix(j \div chunk_size + 1)),
                 content |-> chunk_content,
                 hierarchy |-> section.hierarchy,
                 line_start |-> -1,
                 line_end |-> -1,
                 token_count |-> count_tokens(chunk_content),
                 is_split |-> TRUE,
                 has_overlap |-> j > 0,
                 overlap_source |-> NoSection,
                 part_number |-> j \div chunk_size + 1,
                 total_parts |-> total_parts]
    IN  [k \in 1..total_parts |-> Piece(k)]

\* as create_overlapping_chunks, but a section of exactly max_tokens is split
create_overlapping_chunks_strict(sections) ==
    Flatten([i \in 1..Len(sections) |->
                IF sections[i].token_count < MaxTokens
                THEN <<FitChunk(sections, i)>>
                ELSE SplitChunks(sections[i])])

create_overlapping_chunks(sections) ==
    Flatten([i \in 1..Len(sections) |->
                IF sections[i].token_count <= MaxTokens
                THEN <<FitChunk(sections, i)>>
                ELSE SplitChunks(sections[i])])

\* create_vectorStore.py:52
ExtractSections ==
    /\ cpc = "input"
    /\ doc_sections' = extract_hierarchical_sections(doc_text)
    /\ cpc' = "sectioned"
    /\ UNCHANGED <<docVars, uploadVars, backend, faissVars, searchVars, mongoVars, routeVars, doc_text, doc_chunks>>

\* create_vectorStore.py:55
CreateChunks ==
    /\ cpc = "sectioned"
    /\ doc_chunks' = create_overlapping_chunks(doc_sections)
    /\ cpc' = "chunked"
    /\ UNCHANGED <<docVars, uploadVars, backend, faissVars, searchVars, mongoVars, routeVars, doc_text, doc_sections>>

(***************************************************************************)
(* Specifications.                                                         *)
(***************************************************************************)
BuildIdle ==
    /\ idxFile = [f \in FileIds |-> AbsentFile]
    /\ metaFile = [f \in FileIds |-> AbsentFile]
    /\ fpc = "idle"
    /\ fargs = NoBuild
    /\ fok = {}
    /\ fresults = <<>>
    /\ farrival = <<>>
    /\ fstage = EmptyStage
    /\ fret = NoReturn
    /\ scall = NoCall
    /\ sres = <<>>
    /\ sinfo = NoInfo
    /\ embeddings_collection = <<>>
    /\ muploads = 0
    /\ mpc = "idle"
    /\ margs = NoUpload
    /\ mok = {}
    /\ mresults = <<>>
    /\ marrival = <<>>
    /\ mret = NoReturn

\* no doc_chat.py call was made and its collections are empty
NoDocReturn == [op |-> "none"]

DocIdle ==
    /\ collection = <<>>
    /\ document_summaries = <<>>
    /\ dret = NoDocReturn

\* no upload request is running
NoUploadArgs == [op |-> "none"]

\* no request has ended yet
NoUploadResult == [status |-> "none"]

UploadIdle ==
    /\ upc = "idle"
    /\ uargs = NoUploadArgs
    /\ uret = NoUploadResult

(***************************************************************************)
(* upload_file of main.py: extraction, create_embeddings_batch, summary,   *)
(* file record, response.  The steps of create_embeddings_batch are the    *)
(* actions MongoBegin, MongoEmbedBatch and MongoCollect above.             *)
(***************************************************************************)
\* the PDFs uploaded: one PyPDF2 cannot read, one without text on any
\* page, and those with text, given by the chunks extraction makes of them
Pdfs ==
    {[kind |-> "unreadable", chunks |-> <<>>], [kind |-> "blank", chunks |-> <<>>]}
    \cup {[kind |-> "text", chunks |-> d] : d \in Docs \ {<<>>}}

\* the request is at the call of create_embeddings_batch (main.py:174)
\* and the call has not started
AtEmbeddingCall ==
    /\ upc = "embedding"
    /\ mpc = "idle"
    /\ mret = NoReturn
    /\ margs = NoUpload

\* no request runs
UploadQuiescent ==
    /\ backend = "mongo"
    /\ upc = "idle"
    /\ mpc = "idle"
    /\ mret = NoReturn

\* the result a request ends with, and what it was about
UploadResult(status) ==
    [status |-> status, file_id |-> uargs.file_id, session_id |-> uargs.session_id,
     kind |-> uargs.kind]

\* get_file_paths(file_id): the name of the index files of an uploaded
\* document, the n-th upload being the n-th document
IndexKey(file_id) ==
    CASE file_id = 1 -> "f1" [] file_id = 2 -> "f2" [] OTHER -> "f0"

\* the chain answers the routing prompt with a document or a hybrid label
DocumentReplies ==
    {[raises |-> FALSE, reply |-> [lead |-> "", body |-> b, trail |-> ""]] :
        b \in {"document", "hybrid"}}

\* the call frame of create_embeddings_batch is gone
MongoFrameGone ==
    /\ mpc' = "idle"
    /\ margs' = NoUpload
    /\ mok' = {}
    /\ mresults' = <<>>
    /\ marrival' = <<>>
    /\ mret' = NoReturn

\* main.py:126-170: the file is accepted, given a fresh file_id and read
\* by extract_pdf_sections, which raises on a PDF PyPDF2 cannot read
UploadBegin(session_id, name, pdf) ==
    /\ UploadQuiescent
    /\ muploads < MaxUploads
    /\ Len(files_collection) < MaxFiles
    /\ uargs' = [session_id |-> session_id, name |-> name, kind |-> pdf.kind,
                 sections |-> IF pdf.kind = "blank"
                              THEN create_overlapping_chunks(
                                       extract_hierarchical_sections(
                                           <<[lead |-> 0, words |-> <<>>, trail |-> 0]>>))
                              ELSE pdf.chunks,
                 file_id |-> muploads + 1, tokens |-> 0]
    /\ IF pdf.kind = "unreadable"
       THEN /\ upc' = "idle"
            /\ uret' = [status |-> "error", file_id |-> muploads + 1,
                        session_id |-> session_id, kind |-> pdf.kind]
       ELSE /\ upc' = "embedding"
            /\ uret' = NoUploadResult
    /\ UNCHANGED <<docVars, backend, faissVars, searchVars, mongoVars, routeVars, chunkVars>>

\* main.py:174-180: create_embeddings_batch has returned (or raised) and
\* generate_document_summary runs; ok tells whether the summary is made
UploadSummary(ok) ==
    /\ upc = "embedding"
    /\ mpc = "idle"
    /\ mret # NoReturn
    /\ IF mret.status = "returned" /\ ok
       THEN /\ upc' = "insert"
            /\ uargs' = [uargs EXCEPT !.tokens = mret.tokens]
            /\ uret' = uret
       ELSE /\ upc' = "idle"
            /\ uargs' = NoUploadArgs
            /\ uret' = UploadResult("error")
    /\ MongoFrameGone
    /\ UNCHANGED <<docVars, backend, faissVars, searchVars, embeddings_collection, muploads,
                   routeVars, chunkVars>>

\* main.py:183-197: files_collection.insert_one(file_metadata)
UploadInsertRecord(ok) ==
    /\ upc = "insert"
    /\ IF ok
       THEN /\ files_collection' =
                  Append(files_collection,
                         FileMetadata(uargs.file_id, uargs.session_id, uargs.name))
            /\ upc' = "respond"
            /\ UNCHANGED <<uargs, uret>>
       ELSE /\ upc' = "idle"
            /\ uargs' = NoUploadArgs
            /\ uret' = UploadResult("error")
            /\ UNCHANGED files_collection
    /\ UNCHANGED <<docVars, backend, faissVars, searchVars, mongoVars, rstate, rcall, chunkVars>>

\* main.py:199-219: the temporary file is removed, the system message
\* added and the response returned; ok tells whether add_message succeeds
UploadRespond(ok) ==
    /\ upc = "respond"
    /\ upc' = "idle"
    /\ uargs' = NoUploadArgs
    /\ uret' = UploadResult(IF ok THEN "success" ELSE "error")
    /\ UNCHANGED <<docVars, backend, faissVars, searchVars, mongoVars, routeVars, chunkVars>>

\* the request is cancelled while it waits (the client is gone, the
\* server stops): nothing after the point it has reached runs
UploadAbort ==
    /\ upc # "idle"
    /\ upc' = "idle"
    /\ uargs' = NoUploadArgs
    /\ uret' = UploadResult("aborted")
    /\ MongoFrameGone
    /\ UNCHANGED <<docVars, backend, faissVars, searchVars, embeddings_collection, muploads,
                   routeVars, chunkVars>>

RouteIdle ==
    /\ files_collection = <<>>
    /\ rstate = NoRoute
    /\ rcall = NoRouteCall

ChunkIdle ==
    /\ doc_text = <<>>
    /\ cpc = "off"
    /\ doc_sections = <<>>
    /\ doc_chunks = <<>>

Init ==
    /\ backend \in {"faiss", "mongo"}
    /\ BuildIdle
    /\ RouteIdle
    /\ DocIdle
    /\ UploadIdle
    /\ ChunkIdle

Next ==
    \/ /\ Quiescent
       /\ \E sections \in Docs, f \in BuildIds : FaissBegin(sections, f)
    \/ /\ fpc = "embedding"
       /\ \E b \in DOMAIN fresults, ok \in SUBSET (0..(Len(fargs.sections) - 1)) :
             FaissEmbedBatch(b, ok)
    \/ FaissCollect
    \/ FaissWriteIndex
    \/ FaissWriteMetadata
    \/ /\ ReaderReady
       /\ fpc = "idle"
       /\ \E q \in Queries, f \in FileIds \cup {NoFileId}, limit \in 1..MaxLimit, ok \in BOOLEAN :
             SearchSimilarSections(q, f, limit, ok)
    \/ /\ ReaderReady
       /\ fpc # "idle"
       /\ \E q \in Queries, ok \in BOOLEAN :
             SearchSimilarSections(q, fargs.file_id, MaxLimit, ok)
    \/ \E f \in FileIds : GetDocumentInfo(f)
    \/ ReaderReturn
    \/ /\ Quiescent
       /\ \E q \in Queries, f \in FileIds \cup {NoFileId}, md \in QueryMetadata,
             ok \in BOOLEAN, fallback_ok \in BOOLEAN :
             FilteredVectorSearch(q, f, md, ok, fallback_ok)
    \/ Return
    \/ /\ MongoQuiescent
       /\ \E sections \in Docs : MongoBegin(sections)
    \/ /\ mpc = "embedding"
       /\ \E batch_index \in 0..(Len(mresults) - 1), ok \in BOOLEAN :
             MongoEmbedBatch(batch_index, ok)
    \/ MongoCollect
    \/ MongoReturn

Spec == Init /\ [][Next]_vars

InitRoute ==
    /\ backend = "none"
    /\ BuildIdle
    /\ RouteIdle
    /\ DocIdle
    /\ UploadIdle
    /\ ChunkIdle

NextRoute ==
    \/ \E session_id \in Sessions, name \in UploadNames : InsertFileRecord(session_id, name)
    \/ \E session_id \in Sessions, lookup_ok \in BOOLEAN, llm \in LlmOutcomes :
          RouteQuery(session_id, lookup_ok, llm)

SpecRoute == InitRoute /\ [][NextRoute]_vars

InitChunk ==
    /\ backend = "none"
    /\ BuildIdle
    /\ RouteIdle
    /\ DocIdle
    /\ UploadIdle
    /\ doc_text \in Texts
    /\ cpc = "input"
    /\ doc_sections = <<>>
    /\ doc_chunks = <<>>

NextChunk ==
    \/ ExtractSections
    \/ CreateChunks

SpecChunk == InitChunk /\ [][NextChunk]_vars

\* the files a finished build of a chunk list leaves for a file id, every
\* embedding having succeeded
BuiltStage(sections, file_id) ==
    CollectEmbeddings(sections, file_id,
        [b \in 1..NumBatches(sections) |->
            create_embedding_batch(BatchSections(sections, b), BatchStart(b),
                                   0..(Len(sections) - 1))],
        <<>>)

BuiltIndex(sections, file_id) ==
    LET stage == BuiltStage(sections, file_id)
    IN  StoredFile([k \in 1..Len(stage.all_embeddings) |->
                       NormalizeL2(stage.all_embeddings[k])])

BuiltMetadata(sections, file_id) == StoredFile(BuiltStage(sections, file_id).metadata)

\* the handlers run over the files earlier builds left: each file id has
\* no index, or the index and metadata of one non-empty chunk list
InitAnswer ==
    /\ backend = "faiss"
    /\ \E built \in [FileIds -> Docs \cup SplitDocs] :
          /\ idxFile = [f \in FileIds |->
                IF built[f] = <<>> THEN AbsentFile ELSE BuiltIndex(built[f], f)]
          /\ metaFile = [f \in FileIds |->
                IF built[f] = <<>> THEN AbsentFile ELSE BuiltMetadata(built[f], f)]
    /\ fpc = "idle"
    /\ fargs = NoBuild
    /\ fok = {}
    /\ fresults = <<>>
    /\ farrival = <<>>
    /\ fstage = EmptyStage
    /\ fret = NoReturn
    /\ scall = NoCall
    /\ sres = <<>>
    /\ sinfo = NoInfo
    /\ embeddings_collection = <<>>
    /\ muploads = 0
    /\ mpc = "idle"
    /\ margs = NoUpload
    /\ mok = {}
    /\ mresults = <<>>
    /\ marrival = <<>>
    /\ mret = NoReturn
    /\ RouteIdle
    /\ DocIdle
    /\ UploadIdle
    /\ ChunkIdle

NextAnswer ==
    \/ /\ AnswerIdle
       /\ \E q \in Queries, session_files \in SessionFiles, ok \in SUBSET FileIds :
             HandleDocumentQuery(q, session_files, ok)
    \/ /\ AnswerIdle
       /\ \E q \in Queries, session_files \in SessionFiles, ok \in SUBSET FileIds :
             HandleHybridQuery(q, session_files, ok)
    \/ /\ AnswerIdle
       /\ \E q \in Queries, f \in FileIds \cup {NoFileId}, limit \in 1..MaxLimit, ok \in BOOLEAN :
             SearchSimilarSections(q, f, limit, ok)
    \/ /\ AnswerIdle
       /\ \E q \in Queries, f \in FileIds, md \in QueryMetadata, ok \in BOOLEAN :
             FilteredVectorSearch(q, f, md, ok, ok)
    \/ AnswerReturn

SpecAnswer == InitAnswer /\ [][NextAnswer]_vars

InitDoc ==
    /\ backend = "none"
    /\ BuildIdle
    /\ RouteIdle
    /\ DocIdle
    /\ UploadIdle
    /\ ChunkIdle

NextDoc ==
    \/ \E filename \in UploadNames, file_hash \in FileHashes, has_text \in BOOLEAN,
          n \in 1..MaxDocChunks, fail \in StoreFailures :
          ProcessAndStorePdf(filename, file_hash, has_text, n, fail)
    \/ \E filename \in UploadNames, fail \in DeleteFailures : DeleteDocument(filename, fail)

SpecDoc == InitDoc /\ [][NextDoc]_vars

InitUpload ==
    /\ backend = "mongo"
    /\ BuildIdle
    /\ RouteIdle
    /\ DocIdle
    /\ UploadIdle
    /\ ChunkIdle

NextUpload ==
    \/ /\ UploadQuiescent
       /\ \E session_id \in Sessions, pdf \in Pdfs :
             UploadBegin(session_id, "lease.pdf", pdf)
    \/ /\ AtEmbeddingCall
       /\ MongoBegin(uargs.sections)
    \/ /\ mpc = "embedding"
       /\ upc = "embedding"
       /\ \E batch_index \in 0..(Len(mresults) - 1), ok \in BOOLEAN :
             MongoEmbedBatch(batch_index, ok)
    \/ /\ upc = "embedding"
       /\ MongoCollect
    \/ \E ok \in BOOLEAN : UploadSummary(ok)
    \/ \E ok \in BOOLEAN : UploadInsertRecord(ok)
    \/ \E ok \in BOOLEAN : UploadRespond(ok)
    \/ UploadAbort
    \/ /\ UploadQuiescent
       /\ \E session_id \in Sessions, llm \in DocumentReplies :
             RouteQuery(session_id, TRUE, llm)

SpecUpload == InitUpload /\ [][NextUpload]_vars


(***************************************************************************)
(* Claims about the FAISS index, checked under Spec.                       *)
(***************************************************************************)
\* the vectors and the records persisted for a file id (none when absent)
StoredVectors(file_id) == IF idxFile[file_id].exists THEN idxFile[file_id].data ELSE <<>>

StoredMetadata(file_id) == IF metaFile[file_id].exists THEN metaFile[file_id].data ELSE <<>>

\* the similarity of a query to the vector stored at Python position i
StoredScore(query, file_id, i) ==
    InnerProduct(StoredVectors(file_id)[i + 1], NormalizeL2(Embed(query)))

\* the Python positions of the stored records a result list holds
ReturnedPositions(file_id, results) ==
    {i \in 0..(Len(StoredMetadata(file_id)) - 1) :
        \E r \in 1..Len(results) :
            results[r].section_index = StoredMetadata(file_id)[i + 1].section_index}

\* C1: search_similar_sections never returns two results with the same
\* (file_id, section_index) pair, whatever the persisted index and the limit.
C1_NoDuplicateResults ==
    scall.op = "search" =>
        \A i, j \in 1..Len(sres) :
            i # j => <<sres[i].file_id, sres[i].section_index>>
                        # <<sres[j].file_id, sres[j].section_index>>

\* C2: a search of a document with n stored vectors whose query could be
\* embedded returns exactly min(limit, n) results, in non-increasing order
\* of score, and no stored chunk left out scores higher than a returned one.
C2_TopLimitByScore ==
    (scall.op = "search" /\ IndexFound(scall.file_id) /\ scall.embed_ok) =>
        LET n == Len(StoredVectors(scall.file_id))
        IN  /\ Len(sres) = Min(scall.limit, n)
            /\ \A i, j \in 1..Len(sres) : i < j => sres[i].score >= sres[j].score
            /\ \A i \in (0..(n - 1)) \ ReturnedPositions(scall.file_id, sres) :
                  \A r \in 1..Len(sres) :
                      StoredScore(scall.query, scall.file_id, i) <= sres[r].score

\* no two stored vectors of the file are equally similar to the query
NoTies(query, file_id) ==
    \A i, j \in 0..(Len(StoredVectors(file_id)) - 1) :
        i # j => StoredScore(query, file_id, i) # StoredScore(query, file_id, j)

\* C3: when some stored record satisfies the filters (the query could be
\* embedded, no two stored chunks score alike), filtered_vector_search ranks
\* within the filtered set: every result satisfies the filters, the result
\* is not empty, and a satisfying record is left out only when the cap is
\* filled by satisfying records that score at least as high.
C3_RanksWithinFilteredSet ==
    (/\ scall.op = "filtered"
     /\ IndexFound(scall.file_id)
     /\ scall.embed_ok
     /\ NoTies(scall.query, scall.file_id)
     /\ FilteredIndices(StoredMetadata(scall.file_id), scall.filters) # {}) =>
        /\ \A r \in 1..Len(sres) : apply_filters(sres[r], scall.filters)
        /\ sres # <<>>
        /\ \A i \in FilteredIndices(StoredMetadata(scall.file_id), scall.filters)
                    \ ReturnedPositions(scall.file_id, sres) :
              /\ Len(sres) = FilterCap
              /\ \A r \in 1..Len(sres) :
                    sres[r].score >= StoredScore(scall.query, scall.file_id, i)

\* the filtered search found an index and no record that passes the filters
FilteredSetEmpty ==
    /\ scall.op = "filtered"
    /\ IndexFound(scall.file_id)
    /\ FilteredIndices(StoredMetadata(scall.file_id), scall.filters) = {}

C5_IndexMatchesEmbedded ==
    (fpc = "idle" /\ fret.status = "returned" /\ fargs.sections # <<>>) =>
        LET vectors == StoredVectors(fargs.file_id)
            metadata == StoredMetadata(fargs.file_id)
        IN  /\ Len(vectors) = Len(metadata)
            /\ Len(vectors) = Cardinality(fok)
            /\ \A i \in 1..Len(metadata) :
                  /\ metadata[i].section_index \in fok
                  /\ metadata[i].content
                        = fargs.sections[metadata[i].section_index + 1].content
                  /\ vectors[i] = NormalizeL2(Embed(metadata[i].content))

\* the elements of a finite set of numbers, smallest first
RECURSIVE Ascending(_)
Ascending(S) ==
    IF S = {} THEN <<>>
    ELSE LET m == CHOOSE x \in S : \A y \in S : x <= y
         IN  <<m>> \o Ascending(S \ {m})

\* the documents db["embeddings"] holds for a file, in insertion order
FileDocs(file_id) ==
    SelectSeq(embeddings_collection, LAMBDA d : d.file_id = file_id)

\* input positions of the chunks whose batch was embedded (MongoDB path)
MongoOkPositions ==
    {p \in 0..(Len(margs.sections) - 1) : (p \div BatchSize) \in mok}

StrictlyIncreasing(seq) ==
    \A i, j \in DOMAIN seq : i < j => seq[i] < seq[j]

FaissDone == fpc = "idle" /\ fret.status = "returned" /\ fok # {}

MongoDone == mpc = "idle" /\ mret.status = "returned"

\* C6: whatever order the batch workers finish in, the section_index of a
\* persisted record is the position of its chunk in the input sequence: the
\* records of a document carry distinct, increasing section_index values,
\* and the records a finished call persisted carry exactly the positions of
\* the embedded chunks, each with the content of the chunk at that position
\* (create_embeddings_batch and create_faiss_embeddings).
C6_SectionIndexIsInputPosition ==
    /\ \A f \in FileIds :
          StrictlyIncreasing([i \in 1..Len(StoredMetadata(f)) |->
                                 StoredMetadata(f)[i].section_index])
    /\ \A f \in 1..MaxUploads :
          StrictlyIncreasing([i \in 1..Len(FileDocs(f)) |-> FileDocs(f)[i].section_index])
    /\ FaissDone =>
          LET metadata == StoredMetadata(fargs.file_id)
          IN  /\ [i \in 1..Len(metadata) |-> metadata[i].section_index] = Ascending(fok)
              /\ \A i \in 1..Len(metadata) :
                    metadata[i].content = fargs.sections[metadata[i].section_index + 1].content
    /\ MongoDone =>
          LET docs == FileDocs(margs.file_id)
          IN  /\ [i \in 1..Len(docs) |-> docs[i].section_index] = Ascending(MongoOkPositions)
              /\ \A i \in 1..Len(docs) :
                    docs[i].content = margs.sections[docs[i].section_index + 1].content

\* two batches were embedded, the second finished first, and the call
\* persisted the chunks of both
C6_Witness ==
    /\ MongoDone
    /\ marrival = <<1, 0>>
    /\ mok = {0, 1}
    /\ Len(FileDocs(margs.file_id)) = Len(margs.sections)
    /\ Len(margs.sections) > BatchSize

\* C7: a failing embedding call never makes the ingestion call raise; the
\* failed batch (MongoDB) or chunk (FAISS) adds no record and no tokens,
\* while every chunk whose embedding succeeded is persisted and counted in
\* the returned token total.
C7_EmbeddingFailureIsSwallowed ==
    /\ fret.status # "raised"
    /\ mret.status # "raised"
    /\ (fpc = "idle" /\ fret.status = "returned") =>
          fret.tokens = Sum([k \in 1..Cardinality(fok) |->
                             fargs.sections[Ascending(fok)[k] + 1].token_count])
    /\ FaissDone =>
          {StoredMetadata(fargs.file_id)[i].section_index :
              i \in 1..Len(StoredMetadata(fargs.file_id))} = fok
    /\ MongoDone =>
          /\ {FileDocs(margs.file_id)[i].section_index :
                 i \in 1..Len(FileDocs(margs.file_id))} = MongoOkPositions
          /\ Len(FileDocs(margs.file_id)) = Cardinality(MongoOkPositions)
          /\ mret.tokens =
                Sum([k \in 1..Cardinality(MongoOkPositions) |->
                        CountTokens(margs.sections[Ascending(MongoOkPositions)[k] + 1].content)])

\* one batch failed, a sibling batch succeeded and its chunks are stored
C7_Witness ==
    /\ MongoDone
    /\ mok # {}
    /\ \E b \in 0..(Len(mresults) - 1) : b \notin mok
    /\ FileDocs(margs.file_id) # <<>>
    /\ mret.tokens > 0

\* the session of the last route_query call has a file record
SessionHasFiles ==
    \E i \in 1..Len(files_collection) : files_collection[i].session_id = rcall.session_id

\* C8: route_query returns a route_decision among document, general and
\* hybrid; it is general when the file lookup raises, when the session has
\* no files (the classifier is then not called), when the classifier raises
\* and when its reply, stripped and lower-cased, is not a label; otherwise
\* it is that stripped, lower-cased reply.
C8_RouteIsNormalizedReply ==
    (rcall # NoRouteCall) =>
        /\ rstate.route_decision \in RouteLabels
        /\ IF ~rcall.lookup_ok THEN rstate.route_decision = "general"
           ELSE IF ~SessionHasFiles
                THEN rstate.route_decision = "general" /\ ~rstate.llm_called
                ELSE IF rcall.llm.raises THEN rstate.route_decision = "general"
                     ELSE LET reply == Lower(Strip(rcall.llm.reply))
                          IN  rstate.route_decision =
                                 IF reply \in RouteLabels THEN reply ELSE "general"

IsHeaderAt(lines, k) ==
    StripLine(lines[k]) # <<>> /\ is_section_header(StripLine(lines[k]))

IsBodyAt(lines, k) ==
    StripLine(lines[k]) # <<>> /\ ~is_section_header(StripLine(lines[k]))

\* the headers followed by a body line before the next header
BodiedHeaders(lines) ==
    {k \in 1..Len(lines) :
        /\ IsHeaderAt(lines, k)
        /\ \E m \in (k + 1)..Len(lines) :
              /\ IsBodyAt(lines, m)
              /\ \A n \in (k + 1)..(m - 1) : ~IsHeaderAt(lines, n)}

\* the body lines before the first header, stripped, as one word sequence
PreHeaderBody(lines) ==
    LET before == {k \in 1..Len(lines) :
                      IsBodyAt(lines, k) /\ \A n \in 1..k : ~IsHeaderAt(lines, n)}
    IN  Flatten([k \in 1..Len(lines) |->
                    IF k \in before THEN StripLine(lines[k]) ELSE <<>>])

\* C9: every section extract_hierarchical_sections emits and every chunk
\* create_overlapping_chunks emits has non-empty content, and a header with
\* no body line before the next header or the end of the text gives no
\* section: there are no more sections than headers with a body (and one
\* for body lines before the first header).
C9_NoEmptyContent ==
    /\ cpc \in {"sectioned", "chunked"} =>
          /\ \A i \in 1..Len(doc_sections) : doc_sections[i].content # <<>>
          /\ Len(doc_sections) <=
                Cardinality(BodiedHeaders(doc_text)) +
                (IF PreHeaderBody(doc_text) # <<>> THEN 1 ELSE 0)
    /\ cpc = "chunked" =>
          \A i \in 1..Len(doc_chunks) : doc_chunks[i].content # <<>>

\* a text with a header that has no body was chunked, and a section of it
\* was split
C9_Witness ==
    /\ cpc = "chunked"
    /\ \E k \in 1..Len(doc_text) :
          IsHeaderAt(doc_text, k) /\ k \notin BodiedHeaders(doc_text)
    /\ \E i \in 1..Len(doc_chunks) : doc_chunks[i].is_split

\* C10: the body lines before the first header of the text are emitted by
\* extract_hierarchical_sections as the content of a section.
C10_PreHeaderBodyEmitted ==
    (cpc \in {"sectioned", "chunked"} /\ PreHeaderBody(doc_text) # <<>>) =>
        \E i \in 1..Len(doc_sections) : doc_sections[i].content = PreHeaderBody(doc_text)

(***************************************************************************)
(* Claims about the chunker, checked under SpecChunk.                      *)
(***************************************************************************)
\* the first line with text is a header
StartsWithHeader(lines) ==
    \E k \in 1..Len(lines) :
        IsHeaderAt(lines, k) /\ \A n \in 1..(k - 1) : StripLine(lines[n]) = <<>>

\* the body lines that follow header k up to the next header, stripped and
\* joined by single spaces
BodyOf(lines, k) ==
    Flatten([m \in 1..Len(lines) |->
                IF /\ m > k
                   /\ IsBodyAt(lines, m)
                   /\ \A n \in (k + 1)..(m - 1) : ~IsHeaderAt(lines, n)
                THEN StripLine(lines[m]) ELSE <<>>])

Extracted == cpc \in {"sectioned", "chunked"}

\* C11: for a text whose first non-blank line is a header, the sections are,
\* in input order, exactly the headers followed by a body line before the
\* next header, each titled with its header line and with the stripped body
\* lines joined by single spaces as content.
C11_SectionsAreBodiedHeaders ==
    (Extracted /\ StartsWithHeader(doc_text)) =>
        LET headers == Ascending(BodiedHeaders(doc_text))
        IN  /\ Len(doc_sections) = Len(headers)
            /\ \A i \in 1..Len(headers) :
                  /\ doc_sections[i].section_title = StripLine(doc_text[headers[i]])
                  /\ doc_sections[i].content = BodyOf(doc_text, headers[i])

\* a text that starts with a header gave a section and has a header
\* without body
C11_Witness ==
    /\ Extracted
    /\ StartsWithHeader(doc_text)
    /\ Len(doc_sections) >= 1
    /\ \E k \in 1..Len(doc_text) :
          IsHeaderAt(doc_text, k) /\ k \notin BodiedHeaders(doc_text)

\* the first depth entries of a stack (all of it when it is shorter)
Keep(stack, depth) == [i \in 1..Min(depth, Len(stack)) |-> stack[i]]

RECURSIVE StackAfter(_, _)
\* the hierarchy stack after the first k lines, by the rule of C12
StackAfter(lines, k) ==
    IF k = 0 THEN <<>>
    ELSE LET before == StackAfter(lines, k - 1)
             line == StripLine(lines[k])
         IN  IF ~IsHeaderAt(lines, k) THEN before
             ELSE CASE WordKind(line[1]) = "division" -> <<line>>
                    [] WordKind(line[1]) = "numdot" -> Keep(before, 1) \o <<line>>
                    [] WordKind(line[1]) = "paren_lower" -> Keep(before, 2) \o <<line>>
                    [] OTHER -> before \o <<line>>

\* C12: an ARTICLE/SECTION/CHAPTER header resets the hierarchy stack to the
\* line, a numbered clause truncates it to depth 1 and appends the line, a
\* lettered sub-clause truncates it to depth 2 and appends the line, any
\* other header appends the line; each section records the stack as it
\* stood right after its own title header.
C12_HierarchyStackRule ==
    Extracted =>
        LET headers == Ascending(BodiedHeaders(doc_text))
        IN  /\ Len(doc_sections) = Len(headers)
            /\ \A i \in 1..Len(headers) :
                  doc_sections[i].hierarchy = StackAfter(doc_text, headers[i])

\* a numbered clause came after two deeper headers: its section records a
\* stack cut back to depth 1 plus the clause
C12_Witness ==
    /\ Extracted
    /\ \E i \in 1..Len(doc_sections) :
          /\ WordKind(doc_sections[i].section_title[1]) = "numdot"
          /\ Len(doc_sections[i].hierarchy) = 2
    /\ Cardinality({k \in 1..Len(doc_text) : IsHeaderAt(doc_text, k)}) >= 3

Chunked == cpc = "chunked"

\* the section fits in one chunk
Fits(section) == section.token_count <= MaxTokens

\* ceil(W / (max_tokens - 50)) for the W words of a section
PartsOf(section) ==
    (Len(section.content) + (MaxTokens - Reserve) - 1) \div (MaxTokens - Reserve)

\* chunks a section is expected to give
ChunksOf(section) == IF Fits(section) THEN 1 ELSE PartsOf(section)

\* chunks expected before those of section i
ChunksBefore(sections, i) == Sum([j \in 1..(i - 1) |-> ChunksOf(sections[j])])

\* the chunks of section i, as a sequence
ChunkRun(i) ==
    SubSeq(doc_chunks, ChunksBefore(doc_sections, i) + 1,
           ChunksBefore(doc_sections, i) + ChunksOf(doc_sections[i]))

\* C13: a section of at most max_tokens tokens, exactly max_tokens included,
\* gives exactly one chunk, with the title of the section and not marked
\* is_split; only a section above max_tokens gives is_split chunks.
C13_SplitOnlyAboveMaxTokens ==
    Chunked =>
        /\ Len(doc_chunks) = ChunksBefore(doc_sections, Len(doc_sections) + 1)
        /\ \A i \in 1..Len(doc_sections) :
              IF Fits(doc_sections[i])
              THEN /\ Len(ChunkRun(i)) = 1
                   /\ ChunkRun(i)[1].section_title = doc_sections[i].section_title
                   /\ ~ChunkRun(i)[1].is_split
              ELSE \A k \in 1..Len(ChunkRun(i)) : ChunkRun(i)[k].is_split

\* a section of exactly max_tokens tokens was chunked
C13_Witness ==
    /\ Chunked
    /\ \E i \in 1..Len(doc_sections) :
          /\ doc_sections[i].token_count = MaxTokens
          /\ ~ChunkRun(i)[1].is_split

\* the last n words of a content, all of them when it has fewer
LastWords(words, n) ==
    IF Len(words) > n THEN SubSeq(words, Len(words) - n + 1, Len(words)) ELSE words

\* floor(prev.token_count * overlap_pct) for the section before section i
OverlapWanted(i) == (doc_sections[i - 1].token_count * OverlapPct) \div 100

\* section i fits in one chunk and follows a section with tokens
FitsAfterSection(i) ==
    /\ i > 1
    /\ Fits(doc_sections[i])
    /\ doc_sections[i - 1].token_count > 0

\* C14 as stated: every fitting section after a section with tokens gives a
\* chunk with has_overlap, overlap_source the previous title, and as content
\* the last floor(prev.token_count * overlap_pct) words of the previous
\* content followed by its own content.
C14_OverlapFromPrevious ==
    Chunked =>
        \A i \in 1..Len(doc_sections) :
            FitsAfterSection(i) =>
                /\ ChunkRun(i)[1].has_overlap
                /\ ChunkRun(i)[1].overlap_source = doc_sections[i - 1].section_title
                /\ ChunkRun(i)[1].content =
                      LastWords(doc_sections[i - 1].content, OverlapWanted(i))
                          \o doc_sections[i].content

\* C14 amended: the overlap is injected only when
\* floor(prev.token_count * overlap_pct) is at least 1; then the chunk has
\* has_overlap, overlap_source the previous title and the last so many words
\* of the previous content before its own; otherwise the chunk is the
\* section unchanged and has no has_overlap.
C14_OverlapWhenPositive ==
    Chunked =>
        \A i \in 1..Len(doc_sections) :
            Fits(doc_sections[i]) =>
                IF FitsAfterSection(i) /\ OverlapWanted(i) >= 1
                THEN /\ ChunkRun(i)[1].has_overlap
                     /\ ChunkRun(i)[1].overlap_source = doc_sections[i - 1].section_title
                     /\ ChunkRun(i)[1].content =
                           LastWords(doc_sections[i - 1].content, OverlapWanted(i))
                               \o doc_sections[i].content
                ELSE /\ ~ChunkRun(i)[1].has_overlap
                     /\ ChunkRun(i)[1].overlap_source = NoSection
                     /\ ChunkRun(i)[1].content = doc_sections[i].content

\* a fitting section got the last words, not all words, of the section
\* before it
C14_Witness ==
    /\ Chunked
    /\ \E i \in 1..Len(doc_sections) :
          /\ FitsAfterSection(i)
          /\ OverlapWanted(i) >= 1
          /\ Len(doc_sections[i - 1].content) > OverlapWanted(i)
          /\ ChunkRun(i)[1].has_overlap

\* the sections above max_tokens
SplitSections == {i \in 1..Len(doc_sections) : ~Fits(doc_sections[i])}

\* C15: the chunks of a section above max_tokens with W words are numbered
\* part_number 1..total_parts in output order, all carry total_parts =
\* ceil(W / (max_tokens - 50)), each is titled "{title} (Part k)" with k its
\* part_number, and each has at most (max_tokens - 50) +
\* floor((max_tokens - 50) * overlap_pct) words.
C15_SplitPartsNumbered ==
    Chunked =>
        \A i \in SplitSections :
            /\ Len(ChunkRun(i)) = PartsOf(doc_sections[i])
            /\ \A k \in 1..Len(ChunkRun(i)) :
                  /\ ChunkRun(i)[k].part_number = k
                  /\ ChunkRun(i)[k].total_parts = PartsOf(doc_sections[i])
                  /\ ChunkRun(i)[k].section_title =
                        doc_sections[i].section_title \o <<PartSuffix(k)>>
                  /\ Len(ChunkRun(i)[k].content) <=
                        (MaxTokens - Reserve) + ((MaxTokens - Reserve) * OverlapPct) \div 100

\* a section was split in two parts, the last one shorter than a full piece
C15_Witness ==
    /\ Chunked
    /\ \E i \in SplitSections :
          /\ Len(ChunkRun(i)) = 2
          /\ ChunkRun(i)[2].part_number = 2
          /\ Len(doc_sections[i].content) % (MaxTokens - Reserve) # 0

\* the words of piece k (from 1) of section i, without overlap
PieceWords(i, k) ==
    SubSeq(doc_sections[i].content, (k - 1) * (MaxTokens - Reserve) + 1,
           Min(k * (MaxTokens - Reserve), Len(doc_sections[i].content)))

\* the overlap words of piece k of section i: the words of the section
\* that end where the piece starts
PieceOverlap(i, k) ==
    LET j == (k - 1) * (MaxTokens - Reserve)
        n == ((MaxTokens - Reserve) * OverlapPct) \div 100
    IN  IF j > 0 THEN SubSeq(doc_sections[i].content, Max(0, j - n) + 1, j) ELSE <<>>

\* a chunk content without its first n words
DropWords(words, n) == SubSeq(words, n + 1, Len(words))

\* C16: the piece of a split section that starts at word offset j is the
\* words w[j .. j+s) prefixed, when j > 0, by w[max(0, j - floor(s *
\* overlap_pct)) .. j); without their overlap prefixes the pieces
\* concatenate to w, and the first piece has has_overlap = false.
C16_PiecesCoverWords ==
    Chunked =>
        \A i \in SplitSections :
            /\ \A k \in 1..Len(ChunkRun(i)) :
                  /\ ChunkRun(i)[k].content = PieceOverlap(i, k) \o PieceWords(i, k)
                  /\ ChunkRun(i)[k].has_overlap = (k > 1)
            /\ Flatten([k \in 1..Len(ChunkRun(i)) |->
                           DropWords(ChunkRun(i)[k].content, Len(PieceOverlap(i, k)))])
                  = doc_sections[i].content

\* the second piece of a split section starts with the word that ends the
\* first piece
C16_Witness ==
    /\ Chunked
    /\ \E i \in SplitSections :
          /\ Len(ChunkRun(i)) >= 2
          /\ PieceOverlap(i, 2) # <<>>
          /\ ChunkRun(i)[2].content[1] = ChunkRun(i)[1].content[Len(ChunkRun(i)[1].content)]
          /\ ~ChunkRun(i)[1].has_overlap

\* tokens of the overlap fragment injected into chunk k of section i
OverlapTokens(i, k) ==
    IF Fits(doc_sections[i])
    THEN IF ChunkRun(i)[k].has_overlap
         THEN count_tokens(LastWords(doc_sections[i - 1].content, OverlapWanted(i)))
         ELSE 0
    ELSE count_tokens(PieceOverlap(i, k))

\* C17: every chunk has a token_count of at most max_tokens plus the tokens
\* of its injected overlap fragment, also when a word counts as more than
\* one token.
C17_ChunkTokenBound ==
    Chunked =>
        \A i \in 1..Len(doc_sections) :
            \A k \in 1..Len(ChunkRun(i)) :
                ChunkRun(i)[k].token_count <= MaxTokens + OverlapTokens(i, k)

ReaderOfMissingIndex ==
    /\ scall # NoCall
    /\ scall.op \in {"search", "info"}
    /\ scall.file_id \in FileIds
    /\ ~IndexFound(scall.file_id)

\* a step in which search_similar_sections or get_document_info runs
ReaderStep ==
    /\ scall = NoCall
    /\ scall' # NoCall
    /\ scall'.op \in {"search", "info"}

\* C19: a search or a document-info request for a document id whose index
\* file or metadata file is absent does not raise to its caller:
\* load_faiss_index fails with FileNotFoundError, the search returns the
\* empty list, the info request returns the zero/Unknown default, and the
\* request leaves both persisted files and the collection as they were.
C19_NotFoundIsCleanDefault ==
    /\ [](ReaderOfMissingIndex =>
            /\ load_faiss_index(scall.file_id).error = "FileNotFoundError"
            /\ scall.op = "search" => sres = <<>>
            /\ scall.op = "info" =>
                  /\ ~sinfo.raised
                  /\ sinfo.total_pages = 0
                  /\ sinfo.total_sections = 0
                  /\ sinfo.filename = "Unknown")
    /\ [][ReaderStep => UNCHANGED <<idxFile, metaFile, embeddings_collection>>]_vars

\* an info request answered with the default while the index file of the
\* document is written and its metadata file is not
C19_Witness ==
    /\ ReaderOfMissingIndex
    /\ scall.op = "info"
    /\ idxFile[scall.file_id].exists
    /\ ~metaFile[scall.file_id].exists
    /\ sinfo = DefaultInfo

\* ---------------------------------------------------------------------
\* Claims about the handlers, checked under SpecAnswer
\* ---------------------------------------------------------------------

\* a handler has gathered the sections of a session of several documents
Gathered ==
    /\ scall # NoCall
    /\ scall.op \in {"document", "hybrid"}
    /\ Len(scall.session_files) >= 2

\* the documents of the session whose search succeeded
SearchedFiles ==
    {f \in FileIds :
        /\ \E i \in 1..Len(scall.session_files) : scall.session_files[i] = f
        /\ IndexFound(f)
        /\ f \in scall.embed_ok}

\* the chunks stored for those documents, as <<file id, Python position>>
SessionChunks ==
    {fk \in FileIds \X (0..MaxSections) :
        fk[1] \in SearchedFiles /\ fk[2] < Len(StoredMetadata(fk[1]))}

\* the returned record at position i is the stored chunk fk with its score
IsChunk(i, fk) ==
    /\ sres[i].file_id = fk[1]
    /\ sres[i].section_index = StoredMetadata(fk[1])[fk[2] + 1].section_index
    /\ sres[i].score = StoredScore(scall.query, fk[1], fk[2])

\* C20: the sections a handler keeps are the `limit` highest-scoring
\* chunks over all the session's documents whose search succeeded (5 for
\* a document query, 3 for a hybrid query): min(limit, number of chunks)
\* distinct chunks, in descending order of score, none of them scoring
\* below a chunk that was left out.
C20_AggregateIsGlobalTop ==
    Gathered =>
        /\ Len(sres) = Min(scall.limit, Cardinality(SessionChunks))
        /\ \A i \in 1..Len(sres) : \E fk \in SessionChunks : IsChunk(i, fk)
        /\ \A i, j \in 1..Len(sres) :
              i < j => /\ sres[i].score >= sres[j].score
                       /\ <<sres[i].file_id, sres[i].section_index>> #
                          <<sres[j].file_id, sres[j].section_index>>
        /\ \A fk \in SessionChunks :
              (\A i \in 1..Len(sres) : ~IsChunk(i, fk)) =>
                  \A i \in 1..Len(sres) :
                      sres[i].score >= StoredScore(scall.query, fk[1], fk[2])

\* a search without a document id has returned, its embed_query call
\* having succeeded
SearchedWithoutId ==
    /\ scall # NoCall
    /\ scall.op = "search"
    /\ scall.file_id = NoFileId
    /\ scall.embed_ok

\* C21: a search issued with no document id searches the index of every
\* document and returns the merged per-document results sorted by score,
\* descending: for every document that has an index, the records of one
\* of its own searches are all in the returned list.
C21_SearchWithoutIdCoversAllDocuments ==
    SearchedWithoutId =>
        /\ \A i, j \in 1..Len(sres) : i < j => sres[i].score >= sres[j].score
        /\ \A f \in FileIds :
              IndexFound(f) =>
                  \E own \in search_similar_sections(scall.query, f, scall.limit, TRUE) :
                      \A i \in 1..Len(own) : \E j \in 1..Len(sres) : sres[j] = own[i]

\* ---------------------------------------------------------------------
\* Claims about services/doc_chat.py, checked under SpecDoc
\* ---------------------------------------------------------------------

\* the chunk documents and the summaries stored under a filename
StoredChunks(docs, filename) == {i \in 1..Len(docs) : docs[i].filename = filename}

\* C22: a delete_document call that does not fail removes every chunk
\* document and every summary of the document, and a delete of a document
\* of which nothing is stored (deleted before, or never stored) changes
\* neither collection.
C22_DeleteRemovesAllAndIsIdempotent ==
    [][(dret'.op = "delete" /\ dret'.message # "Error deleting document") =>
          /\ StoredChunks(collection', dret'.filename) = {}
          /\ StoredChunks(document_summaries', dret'.filename) = {}
          /\ (/\ StoredChunks(collection, dret'.filename) = {}
              /\ StoredChunks(document_summaries, dret'.filename) = {})
                => UNCHANGED <<collection, document_summaries>>]_vars

\* ---------------------------------------------------------------------
\* Claims about upload_file, checked under SpecUpload
\* ---------------------------------------------------------------------

\* the last upload request ended with the given status
UploadEnded(status) == uret.status = status

\* the embedding records and the file records stored for a file id
EmbeddingsOf(file_id) ==
    {i \in 1..Len(embeddings_collection) : embeddings_collection[i].file_id = file_id}

FileRecordsOf(file_id) ==
    {i \in 1..Len(files_collection) : files_collection[i].file_id = file_id}

\* C23: when the uploaded PDF has no extractable text on any page, the
\* request ends in a failure reported to the caller, and neither an
\* embedding record, nor an index, nor a file record with status
\* "processed" is stored for the document.
C23_BlankPdfFailsAndStoresNothing ==
    (uret.status # "none" /\ uret.kind = "blank") =>
        /\ uret.status # "success"
        /\ EmbeddingsOf(uret.file_id) = {}
        /\ ~IndexFound(IndexKey(uret.file_id))
        /\ \A i \in FileRecordsOf(uret.file_id) : files_collection[i].status # "processed"

\* a query of the session of the last, successful upload has read the
\* session's file records, the uploaded document among them
QueriedAfterUpload ==
    /\ UploadEnded("success")
    /\ rstate.session_id = uret.session_id
    /\ \E i \in 1..Len(rstate.session_files) :
          rstate.session_files[i].file_id = uret.file_id

\* C24: after upload_file has succeeded for a document in a session, the
\* search that the document and hybrid handlers make for the document on
\* a later query of the session finds the index the upload persisted:
\* load_faiss_index does not end in not-found, and the index holds the
\* document's chunks.
C24_UploadedDocumentIsSearchable ==
    QueriedAfterUpload =>
        /\ load_faiss_index(IndexKey(uret.file_id)).error = "none"
        /\ Len(load_faiss_index(IndexKey(uret.file_id)).metadata) =
              Cardinality(EmbeddingsOf(uret.file_id))

\* C25: when the processing of an upload fails or is aborted after it
\* started, no embedding record of its file_id and no file record of it
\* remains.
C25_FailedUploadLeavesNothing ==
    (UploadEnded("error") \/ UploadEnded("aborted")) =>
        /\ EmbeddingsOf(uret.file_id) = {}
        /\ FileRecordsOf(uret.file_id) = {}


\* C30: once the chunks are produced, every chunk's token_count equals the
\* tokenizer's count of the chunk's final content, the prepended overlap
\* words included.
C30_TokenCountMatchesFinalContent ==
    cpc = "chunked" =>
        \A k \in 1..Len(doc_chunks) :
            doc_chunks[k].token_count = count_tokens(doc_chunks[k].content)


\* the page_range filter alone, as the request of a query that names a page
PageFilterOf(filters) == [page_range |-> filters.page_range, section_index |-> <<>>]

\* the span page_start..page_end of a record shares a page with lo..hi
SpanOverlaps(item, range) == item.page_start <= range[2] /\ range[1] <= item.page_end

\* C29: with a page_range filter [lo, hi], apply_filters accepts a stored
\* record exactly when its span page_start..page_end overlaps [lo, hi]; so for
\* a query that names page p (filter [p-1, p+1]) every chunk whose span
\* contains p is kept.
C29_PageFilterKeepsOverlappingSpans ==
    (/\ scall.op = "filtered"
     /\ scall.filters.page_range # <<>>
     /\ scall.file_id \in FileIds
     /\ metaFile[scall.file_id].exists) =>
        \A i \in 1..Len(metaFile[scall.file_id].data) :
            LET item == metaFile[scall.file_id].data[i]
            IN  apply_filters(item, PageFilterOf(scall.filters))
                    <=> SpanOverlaps(item, scall.filters.page_range)


\* a search of the document under construction runs while the build stands
\* between its two writes
SearchDuringBuild ==
    /\ fpc = "write_metadata"
    /\ scall # NoCall
    /\ scall.op = "search"
    /\ scall.embed_ok
    /\ scall.file_id = fargs.file_id

\* the index and the metadata a reader loads were written by one build: as
\* many records as vectors, each vector the normalized embedding of the
\* content of the record at its position
SameBuild(loaded) ==
    /\ Len(loaded.index) = Len(loaded.metadata)
    /\ \A i \in 1..Len(loaded.index) :
          loaded.index[i] = NormalizeL2(Embed(loaded.metadata[i].content))

\* C28: in every interleaving of one build of a document (a first build or a
\* rebuild) with searches of the same document, each search either finds no
\* index or reads an index and a metadata list that the same build wrote, of
\* equal length.
C28_ConcurrentSearchReadsOneBuild ==
    SearchDuringBuild =>
        \/ load_faiss_index(scall.file_id).error = "FileNotFoundError"
        \/ SameBuild(load_faiss_index(scall.file_id))


\* k for a title that ends in "(Part k)", 0 for any other title
PartOf(title) ==
    IF title = <<>> THEN 0
    ELSE IF title[Len(title)] = "(Part 1)" THEN 1
    ELSE IF title[Len(title)] = "(Part 2)" THEN 2
    ELSE 0

TitleBase(title) == IF PartOf(title) = 0 THEN title ELSE SubSeq(title, 1, Len(title) - 1)

\* stored is the part after the part a returned record holds
IsNextPart(stored, selected) ==
    /\ PartOf(selected.section_title) >= 1
    /\ PartOf(stored.section_title) = PartOf(selected.section_title) + 1
    /\ TitleBase(stored.section_title) = TitleBase(selected.section_title)

\* the inner product of the query with the stored vector of a record
RawSimilarity(record, query) ==
    InnerProduct(idxFile[record.file_id].data[record.section_index + 1],
                 NormalizeL2(Embed(query)))

\* a search of one indexed document returned
SearchedOneDocument ==
    /\ scall # NoCall
    /\ scall.op \in {"search", "filtered"}
    /\ scall.file_id \in FileIds
    /\ IndexFound(scall.file_id)
    /\ scall.embed_ok

\* C26: when a returned chunk is a part of a split section and the result
\* holds fewer chunks than the limit, the part with the next part_number of
\* the same section, if it is stored and was not selected, is appended with
\* 0.9 times the score of the selected chunk.
C26_SplitContinuationIsAppended ==
    SearchedOneDocument =>
        \A i \in 1..Len(sres) :
            \A m \in 1..Len(metaFile[scall.file_id].data) :
                LET stored == metaFile[scall.file_id].data[m]
                IN  (Len(sres) < scall.limit /\ IsNextPart(stored, sres[i])) =>
                        \E j \in 1..Len(sres) :
                            /\ sres[j].section_index = stored.section_index
                            /\ \/ sres[j].score = RawSimilarity(stored, scall.query)
                               \/ 10 * sres[j].score = 9 * sres[i].score

\* None tests false
Truthy(value) == value # None

\* the sums of adjustments, in hundredths, the rule allows for a record:
\* +5 for hierarchy_level <= 2, -2 for a part of a split section, and +10
\* for each of contains_definitions and contains_obligations only if it is set
AllowedDeltas(record) ==
    {(IF record.hierarchy_level <= 2 THEN 5 ELSE 0)
        - (IF PartOf(record.section_title) >= 1 THEN 2 ELSE 0) + a + b :
        a \in IF Truthy(record.contains_definitions) THEN {0, 10} ELSE {0},
        b \in IF Truthy(record.contains_obligations) THEN {0, 10} ELSE {0}}

\* a filtered search ranked the records that passed the filters
FilteredRanked ==
    /\ SearchedOneDocument
    /\ scall.op = "filtered"
    /\ FilteredIndices(metaFile[scall.file_id].data, scall.filters) # {}

\* C27: the score of a record returned by the metadata-aware search is its
\* raw similarity times (1 + the sum of the adjustments that apply): +0.10
\* for a definition query on a chunk with contains_definitions, +0.10 for an
\* obligation query on a chunk with contains_obligations, +0.05 for
\* hierarchy_level <= 2, -0.02 for a split chunk.
C27_ScoreIsBoostedRawSimilarity ==
    FilteredRanked =>
        \A i \in 1..Len(sres) :
            \E d \in AllowedDeltas(sres[i]) :
                100 * sres[i].score = RawSimilarity(sres[i], scall.query) * (100 + d)

====
